---- MODULE Spec2Model ----
(***************************************************************************)
(* Up Bank -> Lunch Money sync: the event processor (lambda/processor),    *)
(* its transaction converter, the work queue that feeds it and the target  *)
(* transaction store it submits to.                                        *)
(*                                                                         *)
(* JSON documents are tagged values: JNull, JStr(s), JChars(cs),           *)
(* JNum(neg, mag), JObj(f) with f a function from keys to JSON values.     *)
(* Both JStr and JChars are Python strings: JStr holds a TLA+ string, for  *)
(* text the code only copies, compares or concatenates (ids, names);       *)
(* JChars holds a sequence of one-character strings, for text the code     *)
(* reads character by character (amounts, timestamps, currency codes).     *)
(* A float is a sign and a magnitude counted in hundredths, or NaN.        *)
(***************************************************************************)
EXTENDS Integers, Sequences, FiniteSets, Bags, TLC

\* ------------------------------------------------------------------ bounds
\* messages on the work queue at the start
MaxMsgs == 2
\* records handed to one invocation of the handler
MaxBatch == 2
\* invocations of the handler that are followed
MaxInvocations == 3
\* invocations of a sync orchestrator
MaxRuns == 2
\* requests to the webhook ingestor
MaxRequests == 2
\* messages in the dead-letter queue
MaxDlq == 2

\* ------------------------------------------------------- JSON / Python values
JNull == [t |-> "null"]
JStr(s) == [t |-> "str", v |-> s]
JChars(cs) == [t |-> "chars", v |-> cs]
JNum(neg, mag) == [t |-> "num", neg |-> neg, mag |-> mag]
JObj(f) == [t |-> "obj", v |-> f]
EmptyDict == JObj([k \in {} |-> JNull])

IsDict(d) == d.t = "obj"

\* dict.get(key, default) on a dict
PyGet(d, key, default) == IF key \in DOMAIN d.v THEN d.v[key] ELSE default

\* Python truthiness: None, "", 0 and {} are falsy
Truthy(x) ==
  CASE x.t = "null" -> FALSE
    [] x.t = "str" -> x.v # ""
    [] x.t = "chars" -> x.v # <<>>
    [] x.t = "num" -> x.mag # 0
    [] x.t = "obj" -> DOMAIN x.v # {}

\* ------------------------------------------------------------------ float()
DigitChars == {"0", "1", "2", "3", "4", "5", "6", "7", "8", "9"}

DigitVal(c) ==
  CASE c = "0" -> 0 [] c = "1" -> 1 [] c = "2" -> 2 [] c = "3" -> 3
    [] c = "4" -> 4 [] c = "5" -> 5 [] c = "6" -> 6 [] c = "7" -> 7
    [] c = "8" -> 8 [] c = "9" -> 9

DigitChar(n) ==
  CASE n = 0 -> "0" [] n = 1 -> "1" [] n = 2 -> "2" [] n = 3 -> "3"
    [] n = 4 -> "4" [] n = 5 -> "5" [] n = 6 -> "6" [] n = 7 -> "7"
    [] n = 8 -> "8" [] n = 9 -> "9"

RECURSIVE DigitsVal(_)
DigitsVal(s) ==
  IF s = <<>> THEN 0
  ELSE 10 * DigitsVal(SubSeq(s, 1, Len(s) - 1)) + DigitVal(s[Len(s)])

FloatNaN == [k |-> "nan"]
FloatFin(neg, mag) == [k |-> "fin", neg |-> neg, mag |-> mag]
FloatError == [k |-> "error"]

\* the hundredths denoted by the digits after the decimal point
FracVal(fp) ==
  IF Len(fp) = 0 THEN 0
  ELSE IF Len(fp) = 1 THEN 10 * DigitVal(fp[1])
  ELSE 10 * DigitVal(fp[1]) + DigitVal(fp[2])

\* float(s) for a string s: optional sign, then nan, or digits with at most
\* one decimal point and at least one digit; anything else is a ValueError
ParseFloatStr(s) ==
  LET signed == s # <<>> /\ s[1] \in {"-", "+"}
      neg == s # <<>> /\ s[1] = "-"
      b == IF signed THEN Tail(s) ELSE s
      dots == {i \in 1..Len(b) : b[i] = "."}
      d == IF dots = {} THEN Len(b) + 1 ELSE CHOOSE i \in dots : TRUE
      ip == SubSeq(b, 1, d - 1)
      fp == SubSeq(b, d + 1, Len(b))
  IN  IF b = <<"n", "a", "n">> THEN FloatNaN
      ELSE IF /\ \A i \in 1..Len(b) : b[i] \in DigitChars \cup {"."}
              /\ Cardinality(dots) <= 1
              /\ Len(ip) + Len(fp) >= 1
           THEN FloatFin(neg, 100 * DigitsVal(ip) + FracVal(fp))
           ELSE FloatError

\* float(x) for any value: a number converts, a string is parsed (the JStr
\* texts of this model are names and ids, none of them numeric), None and a
\* dict are a TypeError
PyFloat(x) ==
  CASE x.t = "num" -> FloatFin(x.neg, x.mag)
    [] x.t = "chars" -> ParseFloatStr(x.v)
    [] OTHER -> FloatError

\* the try/except around float(): an error yields 0.0
FloatOrZero(x) ==
  IF PyFloat(x) = FloatError THEN FloatFin(FALSE, 0) ELSE PyFloat(x)

\* x != 0.0 (NaN differs from every number; -0.0 equals 0.0)
FloatNonZero(f) == f.k = "nan" \/ f.mag # 0

RECURSIVE NatStr(_)
NatStr(n) ==
  IF n < 10 THEN <<DigitChar(n)>> ELSE NatStr(n \div 10) \o <<DigitChar(n % 10)>>

\* variant: the magnitude alone, the sign dropped
FloatStrAbs(f) ==
  IF f.k = "nan" THEN <<"n", "a", "n">>
  ELSE NatStr(f.mag \div 100) \o <<".">>
         \o (IF f.mag % 10 = 0 THEN <<DigitChar((f.mag % 100) \div 10)>>
             ELSE <<DigitChar((f.mag % 100) \div 10), DigitChar(f.mag % 10)>>)

\* str(float), as its characters: shortest repr, always with a fractional part
FloatStr(f) ==
  IF f.k = "nan" THEN <<"n", "a", "n">>
  ELSE (IF f.neg THEN <<"-">> ELSE <<>>)
         \o NatStr(f.mag \div 100) \o <<".">>
         \o (IF f.mag % 10 = 0 THEN <<DigitChar((f.mag % 100) \div 10)>>
             ELSE <<DigitChar((f.mag % 100) \div 10), DigitChar(f.mag % 10)>>)

\* ------------------------------------------------ convert_to_lunchmoney_format
\* str.lower() on the letters that occur in currency codes
LowerChar(c) ==
  CASE c = "A" -> "a" [] c = "U" -> "u" [] c = "D" -> "d" [] c = "S" -> "s"
    [] OTHER -> c

PyLower(cs) == [i \in 1..Len(cs) |-> LowerChar(cs[i])]

\* "{x}" in an f-string, for a string or None
PyFormat(x) == IF x.t = "null" THEN "None" ELSE x.v

\* int(x) of a stored id: the digits' value, or an error
PyInt(x) ==
  IF x.t = "chars" /\ x.v # <<>> /\ \A i \in 1..Len(x.v) : x.v[i] \in DigitChars
  THEN [ok |-> TRUE, val |-> DigitsVal(x.v)]
  ELSE [ok |-> FALSE]

\* a or b
PyOr(a, b) == IF Truthy(a) THEN a ELSE b

\* the amount given to float(): the object's value, or the bare amount
AmountValue(amount) ==
  IF IsDict(amount) THEN PyGet(amount, "value", JChars(<<"0">>)) ELSE amount

\* the currency code before lower-casing
AmountCurrency(amount) ==
  IF IsDict(amount) THEN PyGet(amount, "currencyCode", JChars(<<"A", "U", "D">>))
  ELSE JChars(<<"A", "U", "D">>)

\* variant: the current time, whatever the transaction carries
TransactionTimestampNow(attributes, now) == now

\* settledAt, else createdAt, else the current time
TransactionTimestamp(attributes, now) ==
  PyOr(PyOr(PyGet(attributes, "settledAt", JNull),
            PyGet(attributes, "createdAt", JNull)), now)

\* variant: the timestamp is kept whole
DatePartWhole(ts) == ts

\* the part of the timestamp before the first "T", when there is a "T"
DatePart(ts) ==
  LET ps == {i \in 1..Len(ts.v) : ts.v[i] = "T"}
      p == CHOOSE i \in ps : \A j \in ps : i <= j
  IN  IF ps = {} THEN ts ELSE JChars(SubSeq(ts.v, 1, p - 1))

\* variant: the parent record carries no external_id
ExternalIdMissing(up_transaction) == JNull

\* external_id of the parent record: the source transaction id, verbatim
ExternalId(up_transaction) == PyGet(up_transaction, "id", JNull)

\* variant: the suffix lacks its hyphen
RoundupExternalIdHyphenless(up_transaction) ==
  JStr(PyFormat(PyGet(up_transaction, "id", JNull)) \o "roundup")

\* external_id of the round-up record
RoundupExternalId(up_transaction) ==
  JStr(PyFormat(PyGet(up_transaction, "id", JNull)) \o "-roundup")

\* the id under relationships[name].data, JNull when there is none to look up
RelatedId(relationships, name) ==
  LET data == PyGet(PyGet(relationships, name, EmptyDict), "data", EmptyDict)
  IN  IF Truthy(data) /\ Truthy(PyGet(data, "id", JNull))
      THEN PyGet(data, "id", JNull) ELSE JNull

\* the relationship can be read without an AttributeError
RelatedOk(relationships, name) ==
  /\ IsDict(PyGet(relationships, name, EmptyDict))
  /\ LET data == PyGet(PyGet(relationships, name, EmptyDict), "data", EmptyDict)
     IN  Truthy(data) => IsDict(data)

\* what the mapping lookup returned for the related id (JNull: no mapping)
Mapped(relationships, name, lookup) ==
  IF RelatedId(relationships, name) = JNull THEN JNull
  ELSE lookup[RelatedId(relationships, name).v]

\* roundUp is present and carries a truthy amount
HasRoundupAmount(attributes) ==
  /\ Truthy(PyGet(attributes, "roundUp", JNull))
  /\ Truthy(PyGet(PyGet(attributes, "roundUp", JNull), "amount", JNull))

\* the parsed round-up amount
RoundupFloat(attributes) ==
  LET obj == PyGet(PyGet(attributes, "roundUp", JNull), "amount", EmptyDict)
  IN  FloatOrZero(IF IsDict(obj) THEN PyGet(obj, "value", JChars(<<"0">>))
                  ELSE obj)

\* variant: the notes do not name the parent's payee
RoundupRecordBare(payee, amount, date, external_id, currency) ==
  [payee |-> JStr("Round Up"), amount |-> amount, notes |-> JStr("Round up"),
   date |-> date, external_id |-> external_id, currency |-> currency,
   status |-> "uncleared"]

\* the round-up record before its asset_id
RoundupRecord(payee, amount, date, external_id, currency) ==
  [payee |-> JStr("Round Up"), amount |-> amount,
   notes |-> JStr("Round up for: " \o PyFormat(payee)),
   date |-> date, external_id |-> external_id, currency |-> currency,
   status |-> "uncleared"]

\* the round-up record takes the parent's asset_id when the parent has one
SameAsset(roundup_transaction, lunchmoney_transaction) ==
  IF "asset_id" \in DOMAIN lunchmoney_transaction
  THEN roundup_transaction @@ [asset_id |-> lunchmoney_transaction.asset_id]
  ELSE roundup_transaction

ConvertRaised == [raised |-> TRUE, isList |-> FALSE, recs |-> <<>>]

\* convert_to_lunchmoney_format(up_transaction); assetOf and categoryOf are
\* what get_account_mapping and get_category_mapping return for each id, and
\* now is datetime.now().isoformat()
convert_to_lunchmoney_format(up_transaction, assetOf, categoryOf, now) ==
  LET attributes == PyGet(up_transaction, "attributes", EmptyDict)
      relationships == PyGet(up_transaction, "relationships", EmptyDict)
      amount == PyGet(attributes, "amount", EmptyDict)
      currency == AmountCurrency(amount)
      amount_float == FloatOrZero(AmountValue(amount))
      payee == PyGet(attributes, "description", JStr("Unknown"))
      message == PyGet(attributes, "message", JStr(""))
      notes == IF Truthy(message) THEN message ELSE JStr("")
      ts == TransactionTimestamp(attributes, now)
      transaction_date == DatePart(ts)
      asset == Mapped(relationships, "account", assetOf)
      category == Mapped(relationships, "category", categoryOf)
      base == [payee |-> payee,
               amount |-> FloatStr(amount_float),
               notes |-> notes,
               date |-> transaction_date,
               external_id |-> ExternalId(up_transaction),
               currency |-> PyLower(currency.v),
               status |-> "uncleared"]
      withAsset == IF Truthy(asset)
                   THEN base @@ [asset_id |-> PyInt(asset).val] ELSE base
      lunchmoney_transaction ==
        IF Truthy(category)
        THEN withAsset @@ [category_id |-> PyInt(category).val] ELSE withAsset
      roundup_transaction ==
        SameAsset(RoundupRecord(payee, FloatStr(RoundupFloat(attributes)),
                                transaction_date,
                                RoundupExternalId(up_transaction),
                                PyLower(currency.v)),
                  lunchmoney_transaction)
  IN  IF ~ (IsDict(up_transaction) /\ IsDict(attributes)) THEN ConvertRaised
      ELSE IF currency.t # "chars" THEN ConvertRaised
      ELSE IF ts.t # "chars" THEN ConvertRaised
      ELSE IF ~ IsDict(relationships) THEN ConvertRaised
      ELSE IF ~ RelatedOk(relationships, "account") THEN ConvertRaised
      ELSE IF Truthy(asset) /\ ~ PyInt(asset).ok THEN ConvertRaised
      ELSE IF ~ RelatedOk(relationships, "category") THEN ConvertRaised
      ELSE IF Truthy(category) /\ ~ PyInt(category).ok THEN ConvertRaised
      ELSE IF /\ Truthy(PyGet(attributes, "roundUp", JNull))
              /\ ~ IsDict(PyGet(attributes, "roundUp", JNull)) THEN ConvertRaised
      ELSE IF HasRoundupAmount(attributes) /\ FloatNonZero(RoundupFloat(attributes))
           THEN [raised |-> FALSE, isList |-> TRUE,
                 recs |-> <<lunchmoney_transaction, roundup_transaction>>]
           ELSE [raised |-> FALSE, isList |-> FALSE,
                 recs |-> <<lunchmoney_transaction>>]

\* ------------------------------------------------------- source transactions
\* a key the document does not carry
Absent == [t |-> "absent"]

\* the JSON object holding the keys of f whose value is not Absent
MkObj(f) == JObj([k \in {x \in DOMAIN f : f[x] # Absent} |-> f[k]])

\* source transaction ids; the second is the first followed by "-roundup"
TxnIds == {"t1", "t1-roundup"}

AccountIds == {"acc1", "acc2"}
CategoryIds == {"cat1", "cat2"}

ValueObj(cs) == JObj([value |-> JChars(cs), currencyCode |-> JChars(<<"A", "U", "D">>)])

AmountChoices ==
  { Absent, JNull, JChars(<<"a", "b", "c">>), JNum(FALSE, 500),
    JObj([currencyCode |-> JChars(<<"A", "U", "D">>)]),
    JObj([value |-> JNull, currencyCode |-> JChars(<<"A", "U", "D">>)]),
    JObj([value |-> JChars(<<"a", "b", "c">>), currencyCode |-> JNull]),
    ValueObj(<<"a", "b", "c">>),
    ValueObj(<<"n", "a", "n">>),
    ValueObj(<<"0", ".", "0", "0">>),
    ValueObj(<<"-", "0", ".", "0", "0">>),
    ValueObj(<<"-", "2", "5", ".", "5", "0">>),
    ValueObj(<<"1", "2", ".", "0", "5">>) }

RoundUpOf(amount) == MkObj([amount |-> amount, boostPortion |-> JNull])

RoundUpChoices ==
  { Absent, JNull,
    RoundUpOf(ValueObj(<<"-", "0", ".", "5", "0">>)),
    RoundUpOf(ValueObj(<<"0", ".", "0", "0">>)),
    RoundUpOf(ValueObj(<<"-", "0", ".", "0", "0">>)),
    RoundUpOf(ValueObj(<<"a", "b", "c">>)),
    RoundUpOf(ValueObj(<<"n", "a", "n">>)),
    RoundUpOf(JObj([currencyCode |-> JChars(<<"A", "U", "D">>)])),
    RoundUpOf(JChars(<<"-", "0", ".", "5", "0">>)),
    RoundUpOf(JNum(TRUE, 50)),
    RoundUpOf(JNull), RoundUpOf(Absent) }

CreatedAt == JChars(<<"2", "5", "-", "1", "2", "-", "1", "0", "T", "1", "0", ":", "0", "0", "Z">>)
SettledAt == JChars(<<"2", "5", "-", "1", "2", "-", "1", "1", "T", "0", "9", ":", "3", "0", "Z">>)
\* a timestamp that is a date only
SettledDay == JChars(<<"2", "5", "-", "1", "2", "-", "0", "9">>)
\* datetime.now().isoformat() at two times of processing
NowEarly == JChars(<<"2", "6", "-", "0", "1", "-", "0", "2", "T", "0", "8", ":", "0", "0">>)
NowLate == JChars(<<"2", "6", "-", "0", "1", "-", "0", "3", "T", "0", "8", ":", "0", "0">>)
NowChoices == {NowEarly, NowLate}

\* {"data": {"type": ..., "id": id}}, or {"data": null} for no id (id = "")
Related(type, id) ==
  IF id = "" THEN JObj([data |-> JNull])
  ELSE JObj([data |-> JObj([type |-> JStr(type), id |-> JStr(id)])])

\* a transaction resource of the source API
UpTransaction(id, amount, roundUp, description, settledAt, createdAt, account, category) ==
  JObj([id |-> JStr(id),
        type |-> JStr("transactions"),
        attributes |-> MkObj([amount |-> amount,
                              roundUp |-> roundUp,
                              description |-> description,
                              message |-> JNull,
                              settledAt |-> settledAt,
                              createdAt |-> createdAt]),
        relationships |-> JObj([account |-> Related("accounts", account),
                                category |-> Related("categories", category)])])

\* ---------------------------------------------------------------- variables
\* the converter on its own: one input, the result of converting it, and the
\* records converted so far (source id, position, external_id)
VARIABLES convIn, convOut, converted
\* the result of the previous call on the same input, with the time of that
\* call
VARIABLE convPrev

\* the source API: per transaction id, its round-up and whether it has settled
\* (the processor only reads it)
VARIABLE up
\* the mapping stores: source id -> mapping record
VARIABLES accountTable, categoryTable
\* the work queue: the visible messages, and the invocations made so far
VARIABLES queue, invocations
\* one invocation of the processor: the batch (event["Records"]), the index
\* of the record being processed, the position in the code, the fetched
\* transaction, the converted records and the index of the next to submit
VARIABLES batch, ri, pc, txn, out, si
\* the target system: the bag of transaction rows it holds, each row with its
\* external_id (and the source transaction and position it was converted from)
VARIABLE target
\* history: the calls made for the record being processed (kept until the
\* next record is taken up or the invocation is over); the messages that
\* failed on their round-up after their parent was submitted, with that
\* parent's external_id
VARIABLES log, partialFailed
\* the sync orchestrators: which of the two is running (account or category),
\* the entities the source lists, the entities the target holds, the state of
\* each invocation, and the create calls each invocation issued per entity
VARIABLES kind, sources, lm, runs, createCalls
\* the webhook ingestor: the event of its latest invocation, whether the secret
\* could be retrieved and the queue accepted a send during it, the status it
\* answered with, the messages it has sent to the work queue, and the number of
\* invocations so far
VARIABLES hookEvent, hookEnv, hookStatus, workQueue, hookCount
\* the DLQ redrive: the ids of the messages the DLQ holds, those of them a
\* receive has handed out, the messages sent to the main queue, the state of
\* the invocation (with the event and environment it was started with, and
\* whether a receive handed out more than it was asked for), and the send and
\* delete calls it has made, in order
VARIABLES dlq, inFlight, mainQueue, rd, rdLog
\* the queues as the stack deployed them, with their properties
VARIABLE deployed

convVars == <<convIn, convOut, converted, convPrev>>
storeVars == <<accountTable, categoryTable>>
queueVars == <<queue, invocations>>
invVars == <<batch, ri, pc, txn, out, si>>
histVars == <<log, partialFailed>>
syncVars == <<kind, sources, lm, runs, createCalls>>
hookVars == <<hookEvent, hookEnv, hookStatus, workQueue, hookCount>>
redriveVars == <<dlq, inFlight, mainQueue, rd, rdLog, deployed>>
edgeVars == <<hookVars, redriveVars>>
vars == <<convIn, convOut, converted, convPrev, up, accountTable, categoryTable, queue,
          invocations, batch, ri, pc, txn, out, si, target, log, partialFailed,
          kind, sources, lm, runs, createCalls,
          hookEvent, hookEnv, hookStatus, workQueue, hookCount,
          dlq, inFlight, mainQueue, rd, rdLog, deployed>>

\* ------------------------------------------------------------ webhook events
\* the body of a queued message: the webhook JSON; eventType and the
\* transaction id may be missing (Absent, "")
EventBody(eventType, transactionId) ==
  JObj([data |->
    MkObj([type |-> JStr("webhook-events"),
           attributes |-> MkObj([eventType |-> eventType]),
           relationships |->
             IF transactionId = "" THEN Absent
             ELSE JObj([transaction |-> Related("transactions", transactionId)])])])

Bodies ==
  { EventBody(JStr("TRANSACTION_CREATED"), t) : t \in TxnIds }
  \cup { EventBody(JStr("TRANSACTION_UPDATED"), "t1"),
         EventBody(JStr("PING"), ""),
         EventBody(JStr("TRANSACTION_DELETED"), "t1"),
         EventBody(Absent, "t1"),
         EventBody(JStr("TRANSACTION_CREATED"), "") }

\* webhook_data.get("data", {}).get("attributes", {}).get("eventType", "")
EventType(webhook_data) ==
  PyGet(PyGet(PyGet(webhook_data, "data", EmptyDict),
              "attributes", EmptyDict), "eventType", JStr(""))

\* variant: every event type but PING is processed as a transaction event
DispatchAllButPing(event_type) ==
  IF event_type = JStr("PING") THEN "ping" ELSE "process"

\* the branch the handler takes for an event type
Dispatch(event_type) ==
  IF event_type \in {JStr("TRANSACTION_CREATED"), JStr("TRANSACTION_UPDATED")}
  THEN "process"
  ELSE IF event_type = JStr("PING") THEN "ping" ELSE "ignore"

\* the transaction id the event refers to, None when there is none
TransactionId(webhook_data) ==
  PyGet(PyGet(PyGet(PyGet(PyGet(webhook_data, "data", EmptyDict),
                          "relationships", EmptyDict),
                    "transaction", EmptyDict), "data", EmptyDict), "id", JNull)

\* ------------------------------------------------------------- the source API
\* the account each transaction belongs to
AccountOf(t) == IF t = "t1" THEN "acc1" ELSE "acc2"

\* the category each transaction is filed under: t1 has one, the other none
CategoryOf(t) == IF t = "t1" THEN "cat1" ELSE ""

\* the round-up each transaction carries: t1 has one, the other has none
InitialRoundUp(t) ==
  IF t = "t1" THEN RoundUpOf(ValueObj(<<"-", "0", ".", "5", "0">>)) ELSE JNull

\* the resource GET /transactions/{id} returns
UpResource(t, st) ==
  UpTransaction(t, ValueObj(<<"-", "2", "5", ".", "5", "0">>), st.roundUp,
                JStr("Coffee shop"),
                IF st.settled THEN SettledAt ELSE JNull, CreatedAt,
                AccountOf(t), CategoryOf(t))

\* variant: a failed fetch yields a stub record holding only the id
FetchStub(outcome, resource, transaction_id) ==
  IF outcome = "ok" THEN resource ELSE JObj([id |-> transaction_id])

\* fetch_up_transaction: the resource on a 200, None on any other status and
\* on an exception
fetch_up_transaction(outcome, resource, transaction_id) ==
  IF outcome = "ok" THEN resource ELSE JNull

FetchOutcomes == {"ok", "http_error", "exception"}

\* ---------------------------------------------------------- the mapping stores
\* get_account_mapping / get_category_mapping: the stored lunchmoney_id, None
\* when there is no item and None when the lookup raised
\* variant: an id without an item resolves to the id "0"
get_mappingDefault(table, id, raised) ==
  IF raised THEN JNull
  ELSE IF id \in DOMAIN table THEN table[id].lunchmoney_id ELSE JChars(<<"0">>)

get_mapping(table, id, raised) ==
  IF raised THEN JNull
  ELSE IF id \in DOMAIN table THEN table[id].lunchmoney_id ELSE JNull

\* ------------------------------------------------------------ the target API
SubmitOutcomes == {"ok", "http_error", "exception"}

\* variant: the records converted so far go out together, rules not applied
SyncPayloadBatched(transactions, n) ==
  [transactions |-> SubSeq(transactions, 1, n), debit_as_negative |-> TRUE,
   apply_rules |-> FALSE, check_for_recurring |-> TRUE]

\* the body sync_to_lunchmoney posts for the n-th converted record
SyncPayload(transactions, n) ==
  [transactions |-> <<transactions[n]>>, debit_as_negative |-> TRUE,
   apply_rules |-> TRUE, check_for_recurring |-> TRUE]

\* variant: sync_to_lunchmoney logs a failure and returns
SyncSwallows(outcome) == TRUE

\* sync_to_lunchmoney returns normally only on a 200 (whose body is JSON);
\* on any other status and on an exception it raises
SyncReturns(outcome) == outcome = "ok"

\* the target keeps a submitted row unless it already holds its external_id
TargetAccept(held, row) ==
  IF /\ row.external_id # JNull
     /\ \E r \in BagToSet(held) : r.external_id = row.external_id
  THEN held
  ELSE held (+) SetToBag({row})

\* ----------------------------------------------------------- the work queue
Range(f) == {f[i] : i \in DOMAIN f}

\* the batches the event source can hand to one invocation
Batches(q) ==
  { b \in UNION {[1..n -> q] : n \in 1..MaxBatch} :
      \A i, j \in DOMAIN b : i # j => b[i] # b[j] }

\* ------------------------------------------------------------ the processor
NoConv == [raised |-> FALSE, isList |-> FALSE, recs |-> <<>>]

\* no sync orchestrator runs
SyncIdle ==
  /\ kind = "account" /\ sources = <<>> /\ lm = <<>> /\ runs = <<>>
  /\ createCalls = <<>>

NoPrev == [out |-> NoConv, now |-> JNull]

HookIdle ==
  /\ hookEvent = JNull /\ hookStatus = 0 /\ workQueue = <<>> /\ hookCount = 0
  /\ hookEnv = [secret_retrieved |-> TRUE, accepted |-> TRUE]

\* Duration.seconds(n) and Duration.days(n), in seconds
Duration_seconds(n) == n
Duration_days(n) == n * 86400

\* the properties the stack gives its two queues: the dead-letter queue
\* UpWebhookDLQ and the work queue UpWebhookQueue with the DLQ attached
StackQueues ==
  [UpWebhookDLQ |-> [retention_period |-> Duration_days(14)],
   UpWebhookQueue |-> [visibility_timeout |-> Duration_seconds(300),
                       retention_period |-> Duration_days(14),
                       dead_letter_queue |-> [max_receive_count |-> 5,
                                              queue |-> "UpWebhookDLQ"]]]

RedriveIdle ==
  /\ dlq = {} /\ inFlight = {} /\ mainQueue = <<>> /\ rd = JNull /\ rdLog = <<>>
  /\ deployed = StackQueues

EdgeIdle == HookIdle /\ RedriveIdle

PipelineIdle ==
  /\ batch = <<>> /\ ri = 0 /\ pc = "idle" /\ txn = JNull /\ out = <<>> /\ si = 0
  /\ log = <<>> /\ partialFailed = {}
  /\ target = EmptyBag

Init ==
  /\ convIn = JNull /\ convOut = NoConv /\ converted = {} /\ convPrev = NoPrev
  /\ up = [t \in TxnIds |-> [roundUp |-> InitialRoundUp(t), settled |-> FALSE]]
  /\ accountTable = [a \in {"acc1"} |->
                       [lunchmoney_id |-> JChars(<<"1", "0", "1">>)]]
  /\ categoryTable \in { [c \in {} |-> [lunchmoney_id |-> JNull]],
                         [c \in {"cat1"} |->
                            [lunchmoney_id |-> JChars(<<"2", "0", "2">>)]] }
  /\ queue \in {q \in SUBSET Bodies : Cardinality(q) \in 1..MaxMsgs}
  /\ invocations = 0
  /\ PipelineIdle
  /\ EdgeIdle
  /\ SyncIdle

\* the record being processed is finished: on to the next one, or return
RecordDone ==
  IF ri < Len(batch) THEN ri' = ri + 1 /\ pc' = "record"
  ELSE ri' = ri /\ pc' = "returned"

\* the event source hands a batch of visible messages to the handler
Receive(b) ==
  /\ pc = "idle"
  /\ b \in Batches(queue)
  /\ invocations < MaxInvocations
  /\ batch' = b
  /\ invocations' = invocations + 1
  /\ ri' = 1 /\ pc' = "record" /\ txn' = JNull /\ out' = <<>> /\ si' = 0
  /\ log' = <<>>
  /\ UNCHANGED <<edgeVars, syncVars, convVars, up, storeVars, queue, target, partialFailed>>

\* handler: parse the record, read its event type and dispatch
HandleRecord ==
  /\ pc = "record"
  /\ IF Dispatch(EventType(batch[ri])) = "process"
     THEN pc' = "secrets" /\ ri' = ri
     ELSE RecordDone
  /\ txn' = JNull /\ out' = <<>> /\ si' = 0 /\ log' = <<>>
  /\ UNCHANGED <<edgeVars, syncVars, convVars, up, storeVars, queueVars, batch, target,
                 partialFailed>>

\* process_transaction_event up to the fetch: the two secrets, then the
\* transaction id of the event
ProcessStart(secretsOk) ==
  /\ pc = "secrets"
  /\ IF ~ secretsOk
     THEN /\ pc' = "raised" /\ ri' = ri
          /\ log' = Append(log, [i |-> ri, op |-> "secret", ok |-> FALSE, exc |-> TRUE])
     ELSE /\ log' = log
          /\ IF Truthy(TransactionId(batch[ri]))
             THEN pc' = "fetch" /\ ri' = ri
             ELSE RecordDone
  /\ UNCHANGED <<edgeVars, syncVars, convVars, up, storeVars, queueVars, batch, txn, out, si,
                 target, partialFailed>>

\* the fetch of the transaction and the check of its result
Fetch(outcome) ==
  /\ pc = "fetch"
  /\ LET transaction_id == TransactionId(batch[ri])
         transaction == fetch_up_transaction(outcome,
                          UpResource(transaction_id.v, up[transaction_id.v]),
                          transaction_id)
     IN  /\ txn' = transaction
         /\ log' = Append(log, [i |-> ri, op |-> "fetch", ok |-> outcome = "ok",
                                exc |-> outcome = "exception"])
         /\ IF Truthy(transaction)
            THEN pc' = "convert" /\ ri' = ri
            ELSE RecordDone
  /\ UNCHANGED <<edgeVars, syncVars, convVars, up, storeVars, queueVars, batch, out, si, target,
                 partialFailed>>

\* the conversion, with its two mapping lookups
ConvertStep(accountRaised, categoryRaised, now) ==
  /\ pc = "convert"
  /\ LET relationships == PyGet(txn, "relationships", EmptyDict)
         looksUpAccount == RelatedId(relationships, "account") # JNull
         looksUpCategory == RelatedId(relationships, "category") # JNull
         result == convert_to_lunchmoney_format(txn,
                     [a \in AccountIds |-> get_mapping(accountTable, a, accountRaised)],
                     [c \in CategoryIds |-> get_mapping(categoryTable, c, categoryRaised)],
                     now)
     IN  /\ accountRaised => looksUpAccount
         /\ categoryRaised => looksUpCategory
         /\ log' = IF accountRaised \/ categoryRaised
                   THEN Append(log, [i |-> ri, op |-> "lookup", ok |-> FALSE, exc |-> TRUE])
                   ELSE log
         /\ IF result.raised
            THEN pc' = "raised" /\ out' = <<>> /\ si' = 0
            ELSE pc' = "submit" /\ out' = result.recs /\ si' = 1
  /\ UNCHANGED <<edgeVars, convVars, up, queueVars, batch, ri, txn, target, partialFailed>>

\* variant: a lookup that finds no item creates the target entity and stores
\* its mapping
ConvertCreatingMapping(accountRaised, categoryRaised, now) ==
  /\ ConvertStep(accountRaised, categoryRaised, now)
  /\ LET id == AccountOf(PyGet(txn, "id", JNull).v)
     IN  IF id \in DOMAIN accountTable
         THEN UNCHANGED <<storeVars, syncVars>>
         ELSE /\ accountTable' = accountTable @@
                   (id :> [lunchmoney_id |-> JChars(<<"9">>)])
              /\ lm' = Append(lm, [id |-> 9, name |-> id])
              /\ UNCHANGED <<categoryTable, kind, sources, runs, createCalls>>

\* the conversion only reads the mapping stores (get_item), and calls nothing
\* else
Convert(accountRaised, categoryRaised, now) ==
  /\ ConvertStep(accountRaised, categoryRaised, now)
  /\ UNCHANGED <<storeVars, syncVars>>

\* one call of sync_to_lunchmoney, for the next converted record
Submit(outcome, arrived) ==
  /\ pc = "submit"
  /\ outcome = "ok" => arrived
  /\ outcome = "http_error" => ~ arrived
  /\ LET row == [external_id |-> out[si].external_id,
                 src |-> PyGet(txn, "id", JNull), idx |-> si]
     IN  /\ target' = IF arrived THEN TargetAccept(target, row) ELSE target
         /\ log' = Append(log, [i |-> ri, op |-> "submit", ok |-> outcome = "ok",
                                exc |-> outcome # "ok", idx |-> si,
                                external_id |-> out[si].external_id,
                                payload |-> SyncPayload(out, si)])
         /\ partialFailed' = IF si = 2 /\ outcome # "ok"
                             THEN partialFailed \cup
                                    {[body |-> batch[ri],
                                      external_id |-> out[1].external_id]}
                             ELSE partialFailed
  /\ IF SyncReturns(outcome)
     THEN IF si < Len(out) THEN si' = si + 1 /\ pc' = "submit" /\ ri' = ri
          ELSE si' = si /\ RecordDone
     ELSE si' = si /\ pc' = "raised" /\ ri' = ri
  /\ UNCHANGED <<edgeVars, syncVars, convVars, up, storeVars, queueVars, batch, txn, out>>

InvocationOver ==
  /\ pc' = "idle" /\ batch' = <<>> /\ ri' = 0 /\ txn' = JNull /\ out' = <<>>
  /\ si' = 0 /\ log' = <<>>

\* the handler returned: the event source deletes the batch from the queue
Complete ==
  /\ pc = "returned"
  /\ queue' = queue \ Range(batch)
  /\ InvocationOver
  /\ UNCHANGED <<edgeVars, syncVars, convVars, up, storeVars, invocations, target, partialFailed>>

\* the handler raised: no message of the batch is deleted, all of them become
\* visible again and are delivered to a later invocation
Fail ==
  /\ pc = "raised"
  /\ queue' = queue
  /\ InvocationOver
  /\ UNCHANGED <<edgeVars, syncVars, convVars, up, storeVars, invocations, target, partialFailed>>

Next ==
  \/ \E b \in Batches(queue) : Receive(b)
  \/ HandleRecord
  \/ \E secretsOk \in BOOLEAN : ProcessStart(secretsOk)
  \/ \E outcome \in FetchOutcomes : Fetch(outcome)
  \/ \E ar, cr \in BOOLEAN, now \in NowChoices : Convert(ar, cr, now)
  \/ \E outcome \in SubmitOutcomes, arrived \in BOOLEAN : Submit(outcome, arrived)
  \/ Complete
  \/ Fail

Spec == Init /\ [][Next]_vars

\* ------------------------------------------- the converter on its own inputs


ConvInputs ==
  { [txn |-> UpTransaction(id, am, ru, de, ts[1], ts[2], ac, ""),
     assetOf |-> [a \in AccountIds |-> IF a = "acc1" THEN JChars(<<"1", "0", "1">>) ELSE JNull],
     categoryOf |-> [c \in CategoryIds |-> JNull],
     now |-> now] :
      id \in TxnIds, am \in AmountChoices, ru \in RoundUpChoices,
      de \in {Absent, JStr("Coffee shop")},
      ts \in {<<SettledAt, CreatedAt>>, <<JNull, CreatedAt>>, <<Absent, Absent>>,
              <<SettledDay, CreatedAt>>},
      ac \in {"", "acc1"}, now \in NowChoices }

ConvInit ==
  /\ convIn \in ConvInputs
  /\ convOut = NoConv
  /\ up = [t \in TxnIds |-> [roundUp |-> JNull, settled |-> FALSE]]
  /\ accountTable = [a \in {} |-> [lunchmoney_id |-> JNull]]
  /\ categoryTable = [c \in {} |-> [lunchmoney_id |-> JNull]]
  /\ converted = {} /\ convPrev = NoPrev
  /\ queue = {} /\ invocations = 0
  /\ PipelineIdle
  /\ EdgeIdle
  /\ SyncIdle

\* one call of the converter
ConvertCall ==
  /\ convOut = NoConv
  /\ convOut' = convert_to_lunchmoney_format(convIn.txn, convIn.assetOf,
                                             convIn.categoryOf, convIn.now)
  /\ converted' = converted \cup
       { [src |-> PyGet(convIn.txn, "id", JNull), idx |-> k,
          external_id |-> convOut'.recs[k].external_id] :
         k \in 1..Len(convOut'.recs) }
  /\ UNCHANGED <<edgeVars, syncVars, convIn, convPrev, up, storeVars, queueVars, invVars,
                 target, histVars>>

\* the next source transaction: the same document under another id
NextTransaction(id) ==
  /\ convOut # NoConv
  /\ JStr(id) # PyGet(convIn.txn, "id", JNull)
  /\ convIn' = [convIn EXCEPT !.txn.v.id = JStr(id)]
  /\ convOut' = NoConv /\ convPrev' = NoPrev
  /\ UNCHANGED <<edgeVars, syncVars, converted, up, storeVars, queueVars, invVars,
                 target, histVars>>

\* a second call of the converter on the same transaction and the same
\* mappings, at the time now
ConvertAgain(now) ==
  /\ convOut # NoConv /\ convPrev = NoPrev
  /\ convPrev' = [out |-> convOut, now |-> convIn.now]
  /\ convIn' = [convIn EXCEPT !.now = now]
  /\ convOut' = convert_to_lunchmoney_format(convIn.txn, convIn.assetOf,
                                             convIn.categoryOf, now)
  /\ UNCHANGED <<edgeVars, syncVars, converted, up, storeVars, queueVars, invVars,
                 target, histVars>>

ConvNext ==
  \/ ConvertCall
  \/ \E id \in TxnIds : NextTransaction(id)
  \/ \E now \in NowChoices : ConvertAgain(now)

ConvSpec == ConvInit /\ [][ConvNext]_vars

\* ------------------------------------------------- the sync orchestrators
Runs == 1..MaxRuns

\* what GET /accounts and GET /categories of the source return
UpAccounts ==
  << [id |-> "acc1", name |-> "Spending", accountType |-> "TRANSACTIONAL",
      balance |-> JObj([value |-> JChars(<<"1", "2", ".", "0", "5">>)])],
     [id |-> "acc2", name |-> "Savings", accountType |-> "SAVER",
      balance |-> JObj([value |-> JChars(<<"0", ".", "0", "0">>)])] >>

UpCategories ==
  << [id |-> "cat1", name |-> "Groceries", parent |-> "cat2"],
     [id |-> "cat2", name |-> "Good Life", parent |-> ""] >>

\* the mapping store the running orchestrator works on
Table == IF kind = "account" THEN accountTable ELSE categoryTable

\* get_existing_mapping: the item, None when there is none and None when
\* get_item raised
get_existing_mapping(table, id, raised) ==
  IF raised THEN JNull
  ELSE IF id \in DOMAIN table THEN JObj(table[id]) ELSE JNull

\* the entities of the snapshot whose name is the entity's name
NameMatches(existing, name) == {i \in DOMAIN existing : existing[i].name = name}

\* variant: the last entity of the snapshot with the name
LastMatch(existing, name) ==
  existing[CHOOSE i \in NameMatches(existing, name) :
             \A j \in NameMatches(existing, name) : i >= j]

\* the first entity of the snapshot whose name is the entity's name
FirstMatch(existing, name) ==
  existing[CHOOSE i \in NameMatches(existing, name) :
             \A j \in NameMatches(existing, name) : i <= j]

\* the id the target gives to the entity a create call makes
NextId(held) == 200 + Len(held)

\* the item save_account_mapping / save_category_mapping puts
MappingItem(entity, lunchmoney_id) ==
  IF kind = "account"
  THEN [lunchmoney_id |-> JChars(NatStr(lunchmoney_id)), name |-> entity.name,
        account_type |-> entity.accountType]
  ELSE IF entity.parent # ""
  THEN [lunchmoney_id |-> JChars(NatStr(lunchmoney_id)), name |-> entity.name,
        up_parent_id |-> entity.parent]
  ELSE [lunchmoney_id |-> JChars(NatStr(lunchmoney_id)), name |-> entity.name]

\* variant: a put that leaves an existing record as it is
PutItemIfAbsent(table, id, item) ==
  [k \in DOMAIN table \cup {id} |-> IF k \in DOMAIN table THEN table[k] ELSE item]

\* put_item: the item replaces whatever the store held under the id
PutItem(table, id, item) ==
  [k \in DOMAIN table \cup {id} |-> IF k = id THEN item ELSE table[k]]

RunIdle ==
  [pc |-> "idle", snapshot |-> <<>>, idx |-> 0, synced |-> 0, lunchmoney_id |-> 0,
   status |-> 0, items |-> <<>>, after |-> {}, tableAtEnd |-> <<>>, held |-> 0]

\* what happened to one entity in one run: whether the store held its record
\* when the run looked it up, whether the lookup returned a record, the target
\* id the run obtained (0: none), whether the run called put_item for it, and
\* whether that put_item succeeded
ItemStart(had) ==
  [had |-> had, found |-> FALSE, target |-> 0, put |-> FALSE, stored |-> FALSE]

\* the stores and target states a sync run can start from: nothing mapped yet;
\* the first entity mapped to an entity the target holds; the first entity
\* mapped and the target holding two entities named like the second
SyncStates(entities) ==
  { [table |-> [e \in {} |-> [lunchmoney_id |-> JNull]], lm |-> <<>>],
    [table |-> [e \in {entities[1].id} |->
                  [lunchmoney_id |-> JChars(<<"1", "0", "1">>), name |-> entities[1].name]],
     lm |-> <<[id |-> 101, name |-> entities[1].name]>>],
    [table |-> [e \in {entities[1].id} |->
                  [lunchmoney_id |-> JChars(<<"1", "0", "1">>), name |-> entities[1].name]],
     lm |-> <<[id |-> 55, name |-> entities[2].name],
              [id |-> 56, name |-> entities[2].name]>>] }

SyncInit ==
  /\ convIn = JNull /\ convOut = NoConv /\ converted = {} /\ convPrev = NoPrev
  /\ up = [t \in TxnIds |-> [roundUp |-> JNull, settled |-> FALSE]]
  /\ queue = {} /\ invocations = 0
  /\ PipelineIdle
  /\ EdgeIdle
  /\ kind \in {"account", "category"}
  /\ sources = IF kind = "account" THEN UpAccounts ELSE UpCategories
  /\ \E st \in SyncStates(sources) :
       /\ lm = st.lm
       /\ accountTable = IF kind = "account" THEN st.table
                         ELSE [e \in {} |-> [lunchmoney_id |-> JNull]]
       /\ categoryTable = IF kind = "category" THEN st.table
                          ELSE [e \in {} |-> [lunchmoney_id |-> JNull]]
  /\ runs = [r \in Runs |-> RunIdle]
  /\ createCalls = [r \in Runs |-> [i \in 1..Len(sources) |-> 0]]

\* the run r, its current entity, and the position of that entity
Entity(r) == sources[runs[r].idx]

\* variant: a failure for the current entity ends the run with 500
NextItemOrFail(run, tableNow) ==
  IF ~ (run.items[run.idx].found \/ run.items[run.idx].stored)
  THEN [run EXCEPT !.pc = "failed", !.status = 500, !.lunchmoney_id = 0,
                   !.snapshot = <<>>, !.held = 0]
  ELSE IF run.idx < Len(sources)
  THEN [run EXCEPT !.idx = @ + 1, !.pc = "item", !.lunchmoney_id = 0]
  ELSE [run EXCEPT !.pc = "done", !.status = 200, !.lunchmoney_id = 0,
                   !.snapshot = <<>>, !.held = 0, !.tableAtEnd = tableNow]

\* the run is through with its current entity: on to the next, or return 200
NextItem(run, tableNow) ==
  IF run.idx < Len(sources)
  THEN [run EXCEPT !.idx = @ + 1, !.pc = "item", !.lunchmoney_id = 0]
  ELSE [run EXCEPT !.pc = "done", !.status = 200, !.lunchmoney_id = 0,
                   !.snapshot = <<>>, !.held = 0, !.tableAtEnd = tableNow]

\* the invocations under way, and how many can be under way at once
Running == {q \in Runs : runs[q].pc \in {"item", "resolve", "save"}}
Overlap == 2

StartOutcomes == {"ok", "secret_error", "source_error", "list_error"}

\* fetch_lunchmoney_assets / fetch_lunchmoney_categories: the target's
\* entities on a 200, the empty list on any failure
fetch_lunchmoney_entities(outcome, held) ==
  IF outcome = "ok" THEN held ELSE <<>>

\* (invocations are numbered in the order they start)
\* handler up to its loop: the secrets, the source's entities (a failure of
\* either ends the run with 500), and the snapshot of the target's entities;
\* held is the number of entities the target has at that moment
SyncStart(r, outcome) ==
  /\ runs[r].pc = "idle"
  /\ \A q \in Runs : q < r => runs[q].pc # "idle"
  /\ Cardinality(Running) < Overlap
  /\ runs' = [runs EXCEPT ![r] =
       IF outcome \in {"secret_error", "source_error"}
       THEN [@ EXCEPT !.pc = "failed", !.status = 500]
       ELSE [@ EXCEPT !.pc = "item", !.idx = 1,
                      !.snapshot = fetch_lunchmoney_entities(outcome, lm),
                      !.held = Len(lm),
                      !.after = {q \in Runs : runs[q].pc \in {"done", "failed"}}]]
  /\ UNCHANGED <<edgeVars, convVars, up, storeVars, queueVars, invVars, target, histVars,
                 kind, sources, lm, createCalls>>

\* float(balance value) of an account raises
BalanceRaises(entity) ==
  /\ kind = "account" /\ Truthy(entity.balance)
  /\ PyFloat(PyGet(entity.balance, "value", JNum(FALSE, 0))) = FloatError

\* the loop body up to the check of the existing mapping: an entity with a
\* mapping is counted and skipped
SyncLookup(r, raised) ==
  /\ runs[r].pc = "item"
  /\ LET id == Entity(r).id
         existing_mapping == get_existing_mapping(Table, id, raised)
         item == ItemStart(id \in DOMAIN Table)
     IN  runs' = [runs EXCEPT ![r] =
           IF BalanceRaises(Entity(r))
           THEN NextItem([@ EXCEPT !.items = Append(@, item)], Table)
           ELSE IF Truthy(existing_mapping)
           THEN NextItem([@ EXCEPT !.items = Append(@,
                                      [item EXCEPT !.found = TRUE,
                                         !.target = DigitsVal(existing_mapping.v.lunchmoney_id.v)]),
                                   !.synced = @ + 1], Table)
           ELSE [@ EXCEPT !.items = Append(@, item), !.pc = "resolve"]]
  /\ UNCHANGED <<edgeVars, convVars, up, storeVars, queueVars, invVars, target, histVars,
                 kind, sources, lm, createCalls>>

CreateOutcomes == {"ok", "ok_no_id", "http_error"}

\* variant: a failed create call yields a placeholder id
create_entityPlaceholder(outcome, held) ==
  IF outcome = "ok" THEN [raised |-> FALSE, made |-> TRUE, id |-> NextId(held)]
  ELSE [raised |-> FALSE, made |-> FALSE, id |-> 999]

\* the create call (POST /assets, POST /categories): on a 200 the id the body
\* carries under asset_id / category_id (None when it carries none), on any
\* other status an exception; made tells whether the target made the entity
create_entity(outcome, held) ==
  CASE outcome = "ok" -> [raised |-> FALSE, made |-> TRUE, id |-> NextId(held)]
    [] outcome = "ok_no_id" -> [raised |-> FALSE, made |-> FALSE, id |-> 0]
    [] OTHER -> [raised |-> TRUE, made |-> FALSE, id |-> 0]

\* create_or_find_lunchmoney_asset / _category: the id of the first entity of
\* the snapshot with the entity's name, else a create call, whose failure
\* raises and ends the work on this entity
SyncResolve(r, outcome) ==
  /\ runs[r].pc = "resolve"
  /\ IF NameMatches(runs[r].snapshot, Entity(r).name) # {}
     THEN /\ outcome = "ok"
          /\ LET lunchmoney_id == FirstMatch(runs[r].snapshot, Entity(r).name).id
             IN  runs' = [runs EXCEPT ![r] =
                   IF lunchmoney_id # 0
                   THEN [@ EXCEPT !.lunchmoney_id = lunchmoney_id, !.pc = "save",
                                  !.items[runs[r].idx].target = lunchmoney_id]
                   ELSE NextItem(@, Table)]
          /\ UNCHANGED <<lm, createCalls>>
     ELSE /\ createCalls' = [createCalls EXCEPT ![r][runs[r].idx] = @ + 1]
          /\ LET res == create_entity(outcome, lm)
             IN  /\ lm' = IF res.made
                          THEN Append(lm, [id |-> res.id, name |-> Entity(r).name])
                          ELSE lm
                 /\ runs' = [runs EXCEPT ![r] =
                      IF ~ res.raised /\ res.id # 0
                      THEN [@ EXCEPT !.lunchmoney_id = res.id, !.pc = "save",
                                     !.items[runs[r].idx].target = res.id]
                      ELSE NextItem(@, Table)]
  /\ UNCHANGED <<edgeVars, convVars, up, storeVars, queueVars, invVars, target, histVars,
                 kind, sources>>

\* save_account_mapping / save_category_mapping, and the count of the entity
\* as synced; a put_item that raises ends the work on this entity
SyncSave(r, ok) ==
  /\ runs[r].pc = "save"
  /\ LET saved == PutItem(Table, Entity(r).id,
                          MappingItem(Entity(r), runs[r].lunchmoney_id))
         tableNow == IF ok THEN saved ELSE Table
     IN  /\ accountTable' = IF kind = "account" THEN tableNow ELSE accountTable
         /\ categoryTable' = IF kind = "category" THEN tableNow ELSE categoryTable
         /\ runs' = [runs EXCEPT ![r] =
              NextItem([@ EXCEPT !.items[runs[r].idx].put = TRUE,
                                 !.items[runs[r].idx].stored = ok,
                                 !.synced = IF ok THEN @ + 1 ELSE @], tableNow)]
  /\ UNCHANGED <<edgeVars, convVars, up, queueVars, invVars, target, histVars,
                 kind, sources, lm, createCalls>>

SyncNext ==
  \/ \E r \in Runs, outcome \in StartOutcomes : SyncStart(r, outcome)
  \/ \E r \in Runs, raised \in BOOLEAN : SyncLookup(r, raised)
  \/ \E r \in Runs, outcome \in CreateOutcomes : SyncResolve(r, outcome)
  \/ \E r \in Runs, ok \in BOOLEAN : SyncSave(r, ok)

SyncSpec == SyncInit /\ [][SyncNext]_vars

\* ------------------------------------------------------ the webhook ingestor
\* the shared secret, and the header that carries the signature
WebhookSecret == "s3cret"
SignatureHeader == "X-Up-Authenticity-Signature"

\* request bodies as they arrive in plain text: five JSON documents (two
\* events, an event without eventType, one whose data is null, a list, an
\* event whose eventType is a number) and a text that is no JSON
CreatedText == "{\"data\":{\"attributes\":{\"eventType\":\"TRANSACTION_CREATED\"}}}"
PingText == "{ \"data\": {\"attributes\": {\"eventType\": \"PING\"}} }"
UntypedText == "{\"data\":{\"attributes\":{}}}"
NullDataText == "{\"data\":null}"
ListText == "[]"
NotJsonText == "hello"
NumberTypeText == "{\"data\":{\"attributes\":{\"eventType\":5}}}"
PlainBodies ==
  {CreatedText, PingText, UntypedText, NullDataText, ListText, NotJsonText,
   NumberTypeText}

\* request bodies as they arrive base64-encoded: three of the documents, and a
\* text that is no base64
CreatedEncoded == "eyJkYXRhIjp7ImF0dHJpYnV0ZXMiOnsiZXZlbnRUeXBlIjoiVFJBTlNBQ1RJT05fQ1JFQVRFRCJ9fX0="
UntypedEncoded == "eyJkYXRhIjp7ImF0dHJpYnV0ZXMiOnt9fX0="
ListEncoded == "W10="
NotBase64 == "abc"
EncodedBodies == {CreatedEncoded, UntypedEncoded, ListEncoded, NotBase64}

\* what json.dumps writes for the documents
CreatedDumped == "{\"data\": {\"attributes\": {\"eventType\": \"TRANSACTION_CREATED\"}}}"
PingDumped == "{\"data\": {\"attributes\": {\"eventType\": \"PING\"}}}"
UntypedDumped == "{\"data\": {\"attributes\": {}}}"
NullDataDumped == "{\"data\": null}"
NumberTypeDumped == "{\"data\": {\"attributes\": {\"eventType\": 5}}}"

\* a JSON list
JList == [t |-> "list", v |-> <<>>]

\* the webhook JSON with the given eventType (Absent: none)
WebhookData(eventType) ==
  JObj([data |-> JObj([attributes |-> MkObj([eventType |-> eventType])])])

\* base64.b64decode of the bodies that arrive encoded
b64decode(s) ==
  CASE s = CreatedEncoded -> [raised |-> FALSE, bytes |-> CreatedText]
    [] s = UntypedEncoded -> [raised |-> FALSE, bytes |-> UntypedText]
    [] s = ListEncoded -> [raised |-> FALSE, bytes |-> ListText]
    [] OTHER -> [raised |-> TRUE, bytes |-> ""]

\* hmac.new(key, msg, hashlib.sha256).hexdigest()
hexdigest(key, msg) ==
  IF key # WebhookSecret THEN ""
  ELSE CASE msg = "" ->
              "91dfac70c5348b04e1babb8b421ac92cec08b565b49ca16130dccb72503647b7"
         [] msg = CreatedText ->
              "058dde3a31d6e19c5d9247da75ab4caed0df3b8ef659d5295f867020c6360a6d"
         [] msg = PingText ->
              "be932899e93504633c3127b067612e45170a5f098cf08e41fcdf2a3a65985098"
         [] msg = UntypedText ->
              "1499f033dde801e215dfa6da18d27da1cc4843549b80d90e2fa50260f02fa1b0"
         [] msg = NullDataText ->
              "e2f2ca13ce9d42978ea7135ccfc0675d8c28d4293b620f9aa2835e97cefc2f72"
         [] msg = ListText ->
              "920fbe8da6e51cf8315bd3ce5b63be1439ac418df0cd2abbf6e304e43b71eff9"
         [] msg = NotJsonText ->
              "e5a01537481fa0b2c697f787c7aff885412cf0760d08e08502259b39d2d6ae68"
         [] msg = NumberTypeText ->
              "fea835345d657607780ac825311e57a40fe496900fc32309ac213b84f4605616"
         [] msg = CreatedEncoded ->
              "477de790e0c1c3c49446f1c06312e243671078eb79e5d16140aefaa08fc5515f"
         [] msg = UntypedEncoded ->
              "893a17296d7ed7ff04dbd373e050e659a60196c762c945b5bcc73af9e7f0cdc0"
         [] msg = ListEncoded ->
              "72104e7032fcc8709236b65a6e610e86a2fb0320f5e41a0c37bca71fc9494672"
         [] msg = NotBase64 ->
              "4f2f30aaf4a57bd60ab473c8e9c2cdfefc186723d4727ed6f31f04353c91389a"
         [] OTHER -> ""

\* signatures that are no digest of any body: a wrong digest, and a header
\* value with a character outside ASCII (U+00E9)
WrongSignature ==
  "0000000000000000000000000000000000000000000000000000000000000000"
NonAsciiSignature == "caf<U+00E9>"

\* hmac.compare_digest on two str: a TypeError when either holds a character
\* outside ASCII, else whether they are equal
compare_digest(a, b) ==
  IF a = NonAsciiSignature \/ b = NonAsciiSignature
  THEN [raised |-> TRUE, equal |-> FALSE]
  ELSE [raised |-> FALSE, equal |-> a = b]

\* json.loads: the value of a JSON text, in whatever spacing it is written; a
\* text that is no JSON (the base64 texts among them) raises
json_loads(s) ==
  CASE s \in {CreatedText, CreatedDumped} ->
         [raised |-> FALSE, value |-> WebhookData(JStr("TRANSACTION_CREATED"))]
    [] s \in {PingText, PingDumped} ->
         [raised |-> FALSE, value |-> WebhookData(JStr("PING"))]
    [] s \in {UntypedText, UntypedDumped} ->
         [raised |-> FALSE, value |-> WebhookData(Absent)]
    [] s \in {NullDataText, NullDataDumped} ->
         [raised |-> FALSE, value |-> JObj([data |-> JNull])]
    [] s = ListText ->
         [raised |-> FALSE, value |-> JList]
    [] s \in {NumberTypeText, NumberTypeDumped} ->
         [raised |-> FALSE, value |-> WebhookData(JNum(FALSE, 5))]
    [] OTHER -> [raised |-> TRUE, value |-> JNull]

\* json.dumps of a parsed document
json_dumps(value) ==
  CASE value = WebhookData(JStr("TRANSACTION_CREATED")) -> CreatedDumped
    [] value = WebhookData(JStr("PING")) -> PingDumped
    [] value = WebhookData(Absent) -> UntypedDumped
    [] value = JObj([data |-> JNull]) -> NullDataDumped
    [] value = WebhookData(JNum(FALSE, 5)) -> NumberTypeDumped
    [] OTHER -> ListText

\* webhook_data.get("data", {}).get("attributes", {}).get("eventType",
\* "unknown"): a .get on a value that is no dict raises
webhook_event_type(webhook_data) ==
  IF webhook_data.t # "obj" THEN [raised |-> TRUE, value |-> JNull]
  ELSE LET data == PyGet(webhook_data, "data", EmptyDict)
       IN  IF data.t # "obj" THEN [raised |-> TRUE, value |-> JNull]
           ELSE LET attributes == PyGet(data, "attributes", EmptyDict)
                IN  IF attributes.t # "obj" THEN [raised |-> TRUE, value |-> JNull]
                    ELSE [raised |-> FALSE,
                          value |-> PyGet(attributes, "eventType", JStr("unknown"))]

\* the message sqs.send_message is called with
QueueMessage(webhook_data, event_type) ==
  [MessageBody |-> json_dumps(webhook_data),
   MessageAttributes |->
     [webhook_type |-> [StringValue |-> event_type, DataType |-> "String"]]]

\* variant: a send that fails is passed over in silence
send_messageSwallowed(message, accepted) ==
  IF accepted /\ message.MessageAttributes.webhook_type.StringValue.t = "str"
  THEN [raised |-> FALSE, sent |-> <<message>>]
  ELSE [raised |-> FALSE, sent |-> <<>>]

\* sqs.send_message: raises when the queue refuses the call and when the
\* attribute's StringValue is no str
send_message(message, accepted) ==
  IF accepted /\ message.MessageAttributes.webhook_type.StringValue.t = "str"
  THEN [raised |-> FALSE, sent |-> <<message>>]
  ELSE [raised |-> TRUE, sent |-> <<>>]

\* event["headers"].get(name)
HeaderGet(headers, name) ==
  IF name \in DOMAIN headers THEN JStr(headers[name]) ELSE JNull

Answer(statusCode, sent) == [statusCode |-> statusCode, sent |-> sent]

\* the handler from the signature check on, the secret in hand
VerifyAndQueue(event, webhook_secret, accepted) ==
  LET signature == HeaderGet(event.headers, SignatureHeader)
      decoded == IF event.isBase64Encoded THEN b64decode(event.body)
                 ELSE [raised |-> FALSE, bytes |-> event.body]
      expected_signature == hexdigest(webhook_secret, decoded.bytes)
      compared == compare_digest(signature.v, expected_signature)
      webhook_data == json_loads(event.body)
      event_type == webhook_event_type(webhook_data.value)
      sending == send_message(QueueMessage(webhook_data.value, event_type.value),
                              accepted)
  IN  IF ~ Truthy(signature) THEN Answer(403, <<>>)
      ELSE IF decoded.raised \/ compared.raised THEN Answer(500, <<>>)
      ELSE IF ~ compared.equal THEN Answer(403, <<>>)
      ELSE IF webhook_data.raised \/ event_type.raised THEN Answer(500, <<>>)
      ELSE IF sending.raised THEN Answer(500, <<>>)
      ELSE Answer(200, sending.sent)

\* handler: the answer and the messages sent; a secret that cannot be
\* retrieved ends the invocation with 500
webhook_handler(event, secret_retrieved, accepted) ==
  IF ~ secret_retrieved THEN Answer(500, <<>>)
  ELSE VerifyAndQueue(event, WebhookSecret, accepted)

\* the signature headers a request may carry: none, an empty one, a wrong
\* digest, one outside ASCII, the digest of the body as it arrives, and the
\* digest of the bytes an encoded body decodes to
HeaderChoices(body) ==
  {[h \in {} |-> ""]} \cup
  {[h \in {SignatureHeader} |-> sig] :
     sig \in {"", WrongSignature, NonAsciiSignature,
              hexdigest(WebhookSecret, body),
              hexdigest(WebhookSecret, b64decode(body).bytes)}}

\* the events the gateway may invoke the handler with
HookEvents ==
  {[headers |-> h, body |-> body, isBase64Encoded |-> FALSE] :
     body \in PlainBodies, h \in UNION {HeaderChoices(b) : b \in PlainBodies}}
  \cup {[headers |-> h, body |-> body, isBase64Encoded |-> TRUE] :
     body \in EncodedBodies, h \in UNION {HeaderChoices(b) : b \in EncodedBodies}}

WebhookInit ==
  /\ convIn = JNull /\ convOut = NoConv /\ converted = {} /\ convPrev = NoPrev
  /\ up = [t \in TxnIds |-> [roundUp |-> JNull, settled |-> FALSE]]
  /\ accountTable = [a \in {} |-> [lunchmoney_id |-> JNull]]
  /\ categoryTable = [c \in {} |-> [lunchmoney_id |-> JNull]]
  /\ queue = {} /\ invocations = 0
  /\ PipelineIdle
  /\ HookIdle /\ RedriveIdle
  /\ SyncIdle

\* one invocation of the handler
WebhookInvoke(event, secret_retrieved, accepted) ==
  /\ hookCount < MaxRequests
  /\ LET answer == webhook_handler(event, secret_retrieved, accepted)
     IN  /\ hookEvent' = JObj(event)
         /\ hookEnv' = [secret_retrieved |-> secret_retrieved, accepted |-> accepted]
         /\ hookStatus' = answer.statusCode
         /\ workQueue' = workQueue \o answer.sent
  /\ hookCount' = hookCount + 1
  /\ UNCHANGED <<redriveVars, syncVars, convVars, up, storeVars, queueVars, invVars, target,
                 histVars>>

WebhookNext ==
  \E event \in HookEvents, secret_retrieved \in BOOLEAN, accepted \in BOOLEAN :
    WebhookInvoke(event, secret_retrieved, accepted)

WebhookSpec == WebhookInit /\ [][WebhookNext]_vars

\* ----------------------------------------------------------- the DLQ redrive
\* the messages a DLQ may hold, by MessageId: the first and the third carry
\* the webhook_type attribute, the second carries no attributes
DlqIds == {1, 2, 3}
DlqMessage(id) ==
  IF id = 2
  THEN [MessageId |-> id, ReceiptHandle |-> id, Body |-> PingDumped]
  ELSE [MessageId |-> id, ReceiptHandle |-> id, Body |-> CreatedDumped,
        MessageAttributes |->
          [webhook_type |-> [StringValue |-> JStr("TRANSACTION_CREATED"),
                             DataType |-> "String"]]]

\* the events an invocation may be given: without maxMessages, with a number,
\* with a numeral, with a text that is no numeral
NoKeys == [k \in {} |-> JNull]
RedriveEvents ==
  {NoKeys} \cup
  {[k \in {"maxMessages"} |-> v] :
     v \in {JNum(FALSE, 0), JNum(FALSE, 1), JNum(FALSE, 2), JChars(<<"2">>),
            JChars(<<"a", "b", "c">>)}}

\* the environment of the function: MAX_MESSAGES set or not
RedriveEnvirons == {NoKeys, [k \in {"MAX_MESSAGES"} |-> JChars(<<"1">>)]}

\* d.get(key, default) on a dict with text keys
DictGet(d, key, default) == IF key \in DOMAIN d THEN d[key] ELSE default

\* int() of a number or of a text: a text that is no numeral raises
IntOf(x) ==
  IF x.t = "num" THEN [ok |-> TRUE, val |-> x.mag]
  ELSE IF PyInt(x).ok THEN [ok |-> TRUE, val |-> PyInt(x).val]
  ELSE [ok |-> FALSE, val |-> 0]

\* variant: the environment's cap wins over the event's
CapOfEnvironFirst(event, environ) ==
  IntOf(DictGet(environ, "MAX_MESSAGES",
                DictGet(event, "maxMessages", JChars(<<"1", "0">>))))

\* the cap of an invocation:
\* int(event.get("maxMessages", os.environ.get("MAX_MESSAGES", "10")))
CapOf(event, environ) ==
  IntOf(DictGet(event, "maxMessages",
                DictGet(environ, "MAX_MESSAGES", JChars(<<"1", "0">>))))

\* the ids of a set of messages as a list, in the order of the ids
RECURSIVE Listed(_)
Listed(S) ==
  IF S = {} THEN <<>>
  ELSE LET least == CHOOSE x \in S : \A y \in S : x <= y
       IN  <<least>> \o Listed(S \ {least})

Min2(a, b) == IF a <= b THEN a ELSE b

RedriveInit ==
  /\ convIn = JNull /\ convOut = NoConv /\ converted = {} /\ convPrev = NoPrev
  /\ up = [t \in TxnIds |-> [roundUp |-> JNull, settled |-> FALSE]]
  /\ accountTable = [a \in {} |-> [lunchmoney_id |-> JNull]]
  /\ categoryTable = [c \in {} |-> [lunchmoney_id |-> JNull]]
  /\ queue = {} /\ invocations = 0
  /\ PipelineIdle
  /\ SyncIdle
  /\ HookIdle
  /\ dlq \in SUBSET {id \in DlqIds : id <= MaxDlq}
  /\ inFlight = {} /\ mainQueue = <<>> /\ rdLog = <<>>
  /\ deployed = StackQueues
  /\ rd = [pc |-> "idle", status |-> 0, raised |-> FALSE, oversize |-> FALSE,
           event |-> NoKeys, environ |-> NoKeys, max_messages |-> 0, redriven_count |-> 0,
           failed_count |-> 0, messages |-> <<>>, i |-> 0]

\* variant: the status is set and the loop is not left
ReturnGoesOn(run, statusCode) == [run EXCEPT !.status = statusCode]

\* the invocation returns
Return(run, statusCode) ==
  [run EXCEPT !.pc = "done", !.status = statusCode, !.messages = <<>>, !.i = 0]

\* handler up to its loop: int() of the cap raises out of the handler, 500
\* without the queue URLs or when get_queue_attributes raises, 200 when the
\* DLQ reports no messages
RedriveStart(event, environ, env_set, attrs_ok, approx_messages) ==
  /\ rd.pc = "idle"
  /\ LET max_messages == CapOf(event, environ)
         run == [rd EXCEPT !.event = event, !.environ = environ,
                           !.max_messages = max_messages.val]
     IN  rd' = IF ~ max_messages.ok THEN [run EXCEPT !.pc = "done", !.raised = TRUE]
               ELSE IF ~ env_set \/ ~ attrs_ok THEN Return(run, 500)
               ELSE IF approx_messages = 0 THEN Return(run, 200)
               ELSE [run EXCEPT !.pc = "receive"]
  /\ UNCHANGED <<hookVars, deployed, dlq, inFlight, mainQueue, rdLog, syncVars, convVars, up,
                 storeVars, queueVars, invVars, target, histVars>>

\* MaxNumberOfMessages of the next receive_message
receive_count(run) == Min2(10, run.max_messages - run.redriven_count)

\* the while loop's test and receive_message: the loop ends at the cap and on
\* an empty receive; a receive hands out messages the DLQ holds and has not
\* handed out, as many as asked for or, with a client that does not keep to
\* MaxNumberOfMessages, more
RedriveReceive(received, receive_ok) ==
  /\ rd.pc = "receive"
  /\ received \subseteq dlq \ inFlight
  /\ IF rd.redriven_count >= rd.max_messages
     THEN /\ received = {} /\ receive_ok
          /\ rd' = Return(rd, 200)
          /\ UNCHANGED inFlight
     ELSE IF ~ receive_ok
     THEN /\ received = {}
          /\ rd' = Return(rd, 500)
          /\ UNCHANGED inFlight
     ELSE /\ inFlight' = inFlight \cup received
          /\ rd' = IF received = {} THEN Return(rd, 200)
                   ELSE [rd EXCEPT !.messages = Listed(received), !.i = 1,
                                   !.pc = "send",
                                   !.oversize =
                                     @ \/ Cardinality(received) > receive_count(rd)]
  /\ UNCHANGED <<hookVars, deployed, dlq, mainQueue, rdLog, syncVars, convVars, up, storeVars,
                 queueVars, invVars, target, histVars>>

\* variant: whatever is left of the batch is given up
NextMessageEndsBatch(run) ==
  [run EXCEPT !.messages = <<>>, !.i = 0, !.pc = "receive"]

\* the for loop moves to the next message of the batch, or the batch is over
NextMessage(run) ==
  IF run.i < Len(run.messages)
  THEN [run EXCEPT !.i = @ + 1, !.pc = "send"]
  ELSE [run EXCEPT !.messages = <<>>, !.i = 0, !.pc = "receive"]

\* variant: only the body is passed on
SendParamsBodyOnly(message) == [MessageBody |-> message.Body]

\* what send_message is called with: the body, and the attributes if any
SendParams(message) ==
  IF "MessageAttributes" \in DOMAIN message
  THEN [MessageBody |-> message.Body, MessageAttributes |-> message.MessageAttributes]
  ELSE [MessageBody |-> message.Body]

\* variant: the delete follows the send whether or not the send succeeded
AfterSendAlwaysDelete(run, send_ok) ==
  [run EXCEPT !.pc = "delete", !.failed_count = IF send_ok THEN @ ELSE @ + 1]

\* after send_message: on to the delete, or, the send having raised, the
\* failure is counted and the loop goes on
AfterSend(run, send_ok) ==
  IF send_ok THEN [run EXCEPT !.pc = "delete"]
  ELSE NextMessage([run EXCEPT !.failed_count = @ + 1])

\* the loop body up to send_message; at the cap the for loop breaks
RedriveSend(send_ok) ==
  /\ rd.pc = "send"
  /\ LET message == DlqMessage(rd.messages[rd.i])
     IN  IF rd.redriven_count >= rd.max_messages
         THEN /\ send_ok
              /\ rd' = [rd EXCEPT !.messages = <<>>, !.i = 0, !.pc = "receive"]
              /\ UNCHANGED <<mainQueue, rdLog>>
         ELSE /\ rdLog' = Append(rdLog, [op |-> "send", id |-> message.MessageId,
                                         ok |-> send_ok])
              /\ mainQueue' = IF send_ok THEN Append(mainQueue, SendParams(message))
                              ELSE mainQueue
              /\ rd' = AfterSend(rd, send_ok)
  /\ UNCHANGED <<hookVars, deployed, dlq, inFlight, syncVars, convVars, up, storeVars,
                 queueVars, invVars, target, histVars>>

\* delete_message and the count of the message as redriven; a delete that
\* raises is counted as a failure
RedriveDelete(delete_ok) ==
  /\ rd.pc = "delete"
  /\ LET message == DlqMessage(rd.messages[rd.i])
     IN  /\ rdLog' = Append(rdLog, [op |-> "delete", id |-> message.MessageId,
                                    ok |-> delete_ok])
         /\ dlq' = IF delete_ok THEN dlq \ {message.MessageId} ELSE dlq
         /\ inFlight' = IF delete_ok THEN inFlight \ {message.MessageId} ELSE inFlight
         /\ rd' = IF delete_ok THEN NextMessage([rd EXCEPT !.redriven_count = @ + 1])
                  ELSE NextMessage([rd EXCEPT !.failed_count = @ + 1])
  /\ UNCHANGED <<hookVars, deployed, mainQueue, syncVars, convVars, up, storeVars,
                 queueVars, invVars, target, histVars>>

RedriveNext ==
  \/ \E event \in RedriveEvents, environ \in RedriveEnvirons, env_set \in BOOLEAN,
        attrs_ok \in BOOLEAN, approx_messages \in 0..MaxDlq :
       RedriveStart(event, environ, env_set, attrs_ok, approx_messages)
  \/ \E received \in SUBSET dlq, receive_ok \in BOOLEAN :
       RedriveReceive(received, receive_ok)
  \/ \E send_ok \in BOOLEAN : RedriveSend(send_ok)
  \/ \E delete_ok \in BOOLEAN : RedriveDelete(delete_ok)

RedriveSpec == RedriveInit /\ [][RedriveNext]_vars

\* the handler is one sequential run: every call it makes returns or raises,
\* and the step after it is taken
RedriveLive == RedriveInit /\ [][RedriveNext]_vars /\ WF_vars(RedriveNext)

\* ------------------------------------- from the sync jobs to the processor
\* a sync job saves mapping records and the processor converts transactions
\* that reference the mapped accounts and categories

\* the ids the target gives its entities
TargetIdChoices == {7, 101, 2050}

\* the transactions converted: with and without a round-up, with a currency
\* and with a null one, referencing no, the first or the second account and
\* category
RoundTripTxns ==
  { UpTransaction("t1", am, ru, JStr("Coffee shop"), SettledAt, CreatedAt, ac, ca) :
      am \in {ValueObj(<<"1", "2", ".", "0", "5">>),
              JObj([value |-> JChars(<<"a", "b", "c">>), currencyCode |-> JNull])},
      ru \in {JNull, RoundUpOf(ValueObj(<<"-", "0", ".", "5", "0">>))},
      ac \in {""} \cup AccountIds, ca \in {""} \cup CategoryIds }

RoundTripInit ==
  /\ convIn = JNull /\ convOut = NoConv /\ converted = {} /\ convPrev = NoPrev
  /\ up = [t \in TxnIds |-> [roundUp |-> JNull, settled |-> FALSE]]
  /\ queue = {} /\ invocations = 0
  /\ PipelineIdle
  /\ EdgeIdle
  /\ kind \in {"account", "category"}
  /\ sources = IF kind = "account" THEN UpAccounts ELSE UpCategories
  /\ lm = <<>> /\ runs = <<>> /\ createCalls = <<>>
  /\ accountTable = [e \in {} |-> [lunchmoney_id |-> JNull]]
  /\ categoryTable = [e \in {} |-> [lunchmoney_id |-> JNull]]

\* save_account_mapping / save_category_mapping for the e-th source entity and
\* the target id lunchmoney_id; a put_item that raises stores nothing
SaveMapping(e, lunchmoney_id, ok) ==
  /\ LET saved == PutItem(Table, sources[e].id, MappingItem(sources[e], lunchmoney_id))
         tableNow == IF ok THEN saved ELSE Table
     IN  /\ accountTable' = IF kind = "account" THEN tableNow ELSE accountTable
         /\ categoryTable' = IF kind = "category" THEN tableNow ELSE categoryTable
  /\ UNCHANGED <<edgeVars, syncVars, convVars, up, queueVars, invVars, target, histVars>>

\* the processor converts a transaction, looking its account and category up
\* in the stores; a lookup that raises returns None
ConvertStored(up_transaction, accountRaised, categoryRaised, now) ==
  /\ LET relationships == PyGet(up_transaction, "relationships", EmptyDict)
         assetOf == [a \in AccountIds |-> get_mapping(accountTable, a, accountRaised)]
         categoryOf == [c \in CategoryIds |-> get_mapping(categoryTable, c, categoryRaised)]
     IN  /\ accountRaised => RelatedId(relationships, "account") # JNull
         /\ categoryRaised => RelatedId(relationships, "category") # JNull
         /\ convIn' = [txn |-> up_transaction, assetOf |-> assetOf,
                       categoryOf |-> categoryOf, now |-> now]
         /\ convOut' = convert_to_lunchmoney_format(up_transaction, assetOf, categoryOf, now)
  /\ UNCHANGED <<edgeVars, syncVars, converted, convPrev, up, storeVars, queueVars, invVars,
                 target, histVars>>

RoundTripNext ==
  \/ \E e \in DOMAIN sources, lunchmoney_id \in TargetIdChoices, ok \in BOOLEAN :
       SaveMapping(e, lunchmoney_id, ok)
  \/ \E up_transaction \in RoundTripTxns, accountRaised \in BOOLEAN,
        categoryRaised \in BOOLEAN :
       ConvertStored(up_transaction, accountRaised, categoryRaised, NowEarly)

RoundTripSpec == RoundTripInit /\ [][RoundTripNext]_vars

\* ------------------------------------------------------------------ claims
IsTransactionEvent(body) ==
  EventType(body) \in {JStr("TRANSACTION_CREATED"), JStr("TRANSACTION_UPDATED")}

Submits == {k \in DOMAIN log : log[k].op = "submit"}
Fetches == {k \in DOMAIN log : log[k].op = "fetch"}

\* C1: when the fetch of the transaction fails (non-200 or exception) the
\* handler raises at that record, so the message is redelivered
C1_FetchFailureRaises ==
  \A k \in Fetches : ~ log[k].ok => (pc = "raised" /\ ri = log[k].i)

\* C2: an exception raised at any step of the pipeline for a message
\* propagates out of the handler: once a step has raised, the handler has
\* raised at that record
C2_ExceptionsPropagate ==
  \A k \in DOMAIN log : log[k].exc => (pc = "raised" /\ ri = log[k].i)

\* C3: a record is submitted only after the fetch for the same message
\* returned a transaction, the conversion and the submissions work on that
\* fetched transaction, and a message whose fetch failed has no submission
C3_FetchConvertSubmit ==
  /\ \A k \in Submits :
       \E j \in Fetches : j < k /\ log[j].i = log[k].i /\ log[j].ok
  /\ \A j \in Fetches :
       ~ log[j].ok => \A k \in Submits : log[k].i # log[j].i
  /\ pc \in {"convert", "submit"} =>
       /\ log # <<>> /\ log[Len(log)].i = ri
       /\ txn = UpResource(TransactionId(batch[ri]).v, up[TransactionId(batch[ri]).v])
  /\ pc = "submit" => out # <<>> /\ si \in 1..Len(out)

\* C3 witness: the second record of a batch has been fetched, converted into
\* two records and both were submitted, after the first record was passed
\* over
W3_FetchedThenSubmitted ==
  /\ \E j \in Fetches : log[j].i = 2 /\ log[j].ok
  /\ \E k \in Submits : log[k].i = 2 /\ log[k].idx = 2 /\ k > 2

\* C4: the round-up is submitted right after its parent was submitted with
\* success, and after a failed parent submission nothing more is submitted
C4_ParentFirstFailFast ==
  /\ \A k \in Submits :
       log[k].idx = 2 =>
         /\ k - 1 \in Submits
         /\ log[k - 1].idx = 1 /\ log[k - 1].i = log[k].i /\ log[k - 1].ok
         /\ log[k - 1].external_id = TransactionId(batch[log[k].i])
         /\ log[k].external_id = JStr(log[k - 1].external_id.v \o "-roundup")
  /\ \A k \in Submits :
       (log[k].idx = 1 /\ ~ log[k].ok) => \A j \in Submits : j <= k

\* C4 witness: the parent of a pair failed and the handler has raised
W4_ParentFailed ==
  /\ pc = "raised" /\ Len(out) = 2
  /\ log # <<>> /\ log[Len(log)].op = "submit"
  /\ log[Len(log)].idx = 1 /\ ~ log[Len(log)].ok

\* C5: when the round-up submission fails after its parent succeeded the
\* handler raises at that record, and every later submission of the parent
\* for that message carries the external_id it carried before
C5_PartialFailureRetried ==
  /\ \A k \in Submits :
       (log[k].idx = 2 /\ ~ log[k].ok) => (pc = "raised" /\ ri = log[k].i)
  /\ \A k \in Submits : \A p \in partialFailed :
       (log[k].idx = 1 /\ batch[log[k].i] = p.body)
         => log[k].external_id = p.external_id

\* C5 witness: a message that failed on its round-up in an earlier
\* invocation is delivered again and its parent is submitted again
W5_ParentResubmitted ==
  \E p \in partialFailed : \E k \in Submits :
    /\ batch[log[k].i] = p.body /\ log[k].idx = 1
    /\ \A j \in Submits : log[j].ok

RowsOf(t, n) == {r \in BagToSet(target) : r.src = JStr(t) /\ r.idx = n}

\* C6: the target holds at most one parent row and at most one round-up row
\* per source transaction
C6_AtMostOneRowPerTransaction ==
  \A t \in TxnIds : \A n \in {1, 2} :
    /\ Cardinality(RowsOf(t, n)) <= 1
    /\ \A r \in RowsOf(t, n) : CopiesIn(r, target) = 1

\* C6 witness: after the CREATED event of t1 failed on its round-up (its
\* parent row is held), the UPDATED event of t1 submits parent and round-up
\* with success
W6_UpdatedAfterCreated ==
  /\ \E p \in partialFailed : p.body = EventBody(JStr("TRANSACTION_CREATED"), "t1")
  /\ \E k \in Submits :
       /\ batch[log[k].i] = EventBody(JStr("TRANSACTION_UPDATED"), "t1")
       /\ log[k].idx = 2 /\ log[k].ok
  /\ RowsOf("t1", 1) # {} /\ RowsOf("t1", 2) # {}

\* C7: only TRANSACTION_CREATED and TRANSACTION_UPDATED messages cause a
\* call (secret, fetch, lookup, submission); the handler is never inside
\* process_transaction_event, and never raises, for any other message
C7_FilterByEventType ==
  /\ \A k \in DOMAIN log : IsTransactionEvent(batch[log[k].i])
  /\ pc \in {"secrets", "fetch", "convert", "submit", "raised"} =>
       IsTransactionEvent(batch[ri])

\* C7 witness: a batch of two messages, none of them a transaction event, has
\* been handled without a call and the handler has returned
W7_IgnoredBatch ==
  /\ pc = "returned" /\ Len(batch) = 2 /\ log = <<>>
  /\ \A i \in DOMAIN batch : ~ IsTransactionEvent(batch[i])
  /\ \E i \in DOMAIN batch : EventType(batch[i]) = JStr("PING")

\* C8: in a batch, a failing message does not keep the other messages from
\* being processed (the handler raises only at the last record), and a
\* message processed with success is not left on the queue by the failure
C8_BatchIndependent ==
  [][ /\ pc' = "raised" => ri' = Len(batch')
      /\ (pc = "raised" /\ pc' = "idle") =>
           \A i \in 1..(ri - 1) : batch[i] \notin queue' ]_vars

ConvRoundUp == PyGet(PyGet(convIn.txn, "attributes", EmptyDict), "roundUp", Absent)

\* the round-ups of the input universe whose amount parses to a non-zero value
NonZeroRoundUps ==
  { RoundUpOf(ValueObj(<<"-", "0", ".", "5", "0">>)),
    RoundUpOf(ValueObj(<<"n", "a", "n">>)),
    RoundUpOf(JChars(<<"-", "0", ".", "5", "0">>)),
    RoundUpOf(JNum(TRUE, 50)) }

\* C9: a round-up amount that parses to a non-zero value yields two records,
\* parent first, the second's external_id being the first's followed by
\* "-roundup"; any other round-up (zero, unparseable, absent) yields one
C9_RoundUpSplit ==
  (convOut # NoConv /\ ~ convOut.raised) =>
    /\ convOut.recs[1].external_id = PyGet(convIn.txn, "id", JNull)
    /\ IF ConvRoundUp \in NonZeroRoundUps
       THEN /\ Len(convOut.recs) = 2
            /\ convOut.recs[2].external_id =
                 JStr(convOut.recs[1].external_id.v \o "-roundup")
            /\ convOut.recs[2].payee = JStr("Round Up")
       ELSE Len(convOut.recs) = 1

\* C9 witness: a conversion that produced a pair
W9_Pair == Len(convOut.recs) = 2 /\ ConvRoundUp \in NonZeroRoundUps

\* C10: records converted from source transactions with distinct ids have
\* distinct external_ids
C10_ExternalIdsUnique ==
  \A a, b \in converted :
    a.external_id = b.external_id => (a.src = b.src /\ a.idx = b.idx)

ConvParent == convOut.recs[1]
ConvRoundUpRecord == convOut.recs[2]

\* C11: a round-up record has payee "Round Up", notes "Round up for: "
\* followed by the parent's payee, status "uncleared", the parent's date and
\* currency, and an asset_id exactly when the parent has one, of the same value
C11_RoundUpRecord ==
  Len(convOut.recs) = 2 =>
    /\ ConvRoundUpRecord.payee = JStr("Round Up")
    /\ ConvRoundUpRecord.notes = JStr("Round up for: " \o ConvParent.payee.v)
    /\ ConvRoundUpRecord.status = "uncleared"
    /\ ConvRoundUpRecord.date = ConvParent.date
    /\ ConvRoundUpRecord.currency = ConvParent.currency
    /\ ("asset_id" \in DOMAIN ConvRoundUpRecord) <=> ("asset_id" \in DOMAIN ConvParent)
    /\ "asset_id" \in DOMAIN ConvParent =>
         ConvRoundUpRecord.asset_id = ConvParent.asset_id

\* C11 witness: a pair whose parent carries an asset_id
W11_PairWithAsset ==
  /\ Len(convOut.recs) = 2
  /\ "asset_id" \in DOMAIN ConvParent
  /\ ConvParent.payee = JStr("Coffee shop")

ConvAmount == PyGet(PyGet(convIn.txn, "attributes", EmptyDict), "amount", Absent)

\* the amounts of the input universe that are absent, null, not a number, or
\* an object whose value is absent, null or not a number
NonNumericAmounts ==
  { Absent, JNull, JChars(<<"a", "b", "c">>),
    JObj([currencyCode |-> JChars(<<"A", "U", "D">>)]),
    JObj([value |-> JNull, currencyCode |-> JChars(<<"A", "U", "D">>)]),
    JObj([value |-> JChars(<<"a", "b", "c">>), currencyCode |-> JNull]),
    ValueObj(<<"a", "b", "c">>) }

\* C12: a transaction whose amount is absent, null, non-numeric, or an object
\* whose value is absent or non-numeric converts without raising, and its
\* output amount is "0.0"
C12_MalformedAmountIsZero ==
  (convOut # NoConv /\ ConvAmount \in NonNumericAmounts) =>
    /\ ~ convOut.raised
    /\ ConvParent.amount = <<"0", ".", "0">>

\* the numeric amounts of the input universe, with the sign and the hundredths
\* each one denotes
NumericAmounts ==
  { [amount |-> JNum(FALSE, 500), neg |-> FALSE, mag |-> 500],
    [amount |-> ValueObj(<<"0", ".", "0", "0">>), neg |-> FALSE, mag |-> 0],
    [amount |-> ValueObj(<<"-", "0", ".", "0", "0">>), neg |-> TRUE, mag |-> 0],
    [amount |-> ValueObj(<<"-", "2", "5", ".", "5", "0">>), neg |-> TRUE, mag |-> 2550],
    [amount |-> ValueObj(<<"1", "2", ".", "0", "5">>), neg |-> FALSE, mag |-> 1205] }

\* the non-zero round-ups of the input universe, likewise
NumericRoundUps ==
  { [roundUp |-> RoundUpOf(ValueObj(<<"-", "0", ".", "5", "0">>)), neg |-> TRUE, mag |-> 50],
    [roundUp |-> RoundUpOf(JChars(<<"-", "0", ".", "5", "0">>)), neg |-> TRUE, mag |-> 50],
    [roundUp |-> RoundUpOf(JNum(TRUE, 50)), neg |-> TRUE, mag |-> 50] }

\* the output amount, read back as a number, is the source number e: the same
\* magnitude and, unless it is zero, the same sign
SameNumber(amount, e) ==
  /\ ParseFloatStr(amount).k = "fin"
  /\ ParseFloatStr(amount).mag = e.mag
  /\ e.mag # 0 => ParseFloatStr(amount).neg = e.neg

\* C13: the output amount of a numeric source amount has the same sign and
\* the same value as the source, in the parent record and in the round-up
\* record
C13_AmountSignPreserved ==
  (convOut # NoConv /\ ~ convOut.raised) =>
    /\ \A e \in NumericAmounts :
         ConvAmount = e.amount => SameNumber(ConvParent.amount, e)
    /\ \A e \in NumericRoundUps :
         ConvRoundUp = e.roundUp =>
           Len(convOut.recs) = 2 /\ SameNumber(ConvRoundUpRecord.amount, e)

\* C13 witness: a negative amount with a negative round-up, converted
W13_NegativePair ==
  /\ Len(convOut.recs) = 2
  /\ ConvAmount = ValueObj(<<"-", "2", "5", ".", "5", "0">>)
  /\ ConvRoundUp = RoundUpOf(ValueObj(<<"-", "0", ".", "5", "0">>))
  /\ ConvParent.amount = <<"-", "2", "5", ".", "5">>

\* the id of the transaction being processed
TxnId == PyGet(txn, "id", JNull).v

\* C14: a transaction that references an account or category without a
\* mapping record converts without failing and goes on to submission, its
\* record lacking asset_id or category_id; a record carries asset_id or
\* category_id only when the store holds the mapping, and then its value
C14_UnmappedOmitted ==
  /\ pc = "raised" => (log # <<>> /\ log[Len(log)].op \in {"secret", "submit"})
  /\ pc = "submit" =>
       /\ "asset_id" \in DOMAIN out[1] =>
            /\ AccountOf(TxnId) \in DOMAIN accountTable
            /\ out[1].asset_id = DigitsVal(accountTable[AccountOf(TxnId)].lunchmoney_id.v)
       /\ "category_id" \in DOMAIN out[1] =>
            /\ CategoryOf(TxnId) \in DOMAIN categoryTable
            /\ out[1].category_id = DigitsVal(categoryTable[CategoryOf(TxnId)].lunchmoney_id.v)

\* C14 witness: the record of a transaction on the unmapped account acc2 was
\* submitted, without asset_id
W14_SubmittedWithoutAsset ==
  /\ \E k \in Submits : log[k].ok /\ log[k].idx = 1
  /\ AccountOf(TxnId) \notin DOMAIN accountTable
  /\ "asset_id" \notin DOMAIN out[1]

\* C15: processing a queued message, whatever its event type and whether it
\* succeeds or fails, leaves both mapping stores as they were and issues no
\* create call to the target (the target's entities stay as they were)
C15_ProcessorReadsOnly ==
  [][ /\ accountTable' = accountTable /\ categoryTable' = categoryTable
      /\ lm' = lm /\ createCalls' = createCalls ]_vars

\* C15 witness: a transaction on the unmapped account acc2 was looked up and
\* its processing failed at the submission
W15_UnmappedProcessedAndFailed ==
  /\ pc = "raised" /\ Submits # {}
  /\ AccountOf(TxnId) \notin DOMAIN accountTable

\* the input transaction carries a settled or a created timestamp
ConvHasTimestamp ==
  LET attributes == PyGet(convIn.txn, "attributes", EmptyDict)
  IN  \/ Truthy(PyGet(attributes, "settledAt", JNull))
      \/ Truthy(PyGet(attributes, "createdAt", JNull))

\* a conversion result with the date of its records blanked
WithoutDate(result) ==
  [result EXCEPT !.recs = [k \in DOMAIN result.recs |->
                             [result.recs[k] EXCEPT !.date = JNull]]]

DayOf(ts) ==
  CASE ts = SettledAt -> <<"2", "5", "-", "1", "2", "-", "1", "1">>
    [] ts = CreatedAt -> <<"2", "5", "-", "1", "2", "-", "1", "0">>
    [] ts = SettledDay -> <<"2", "5", "-", "1", "2", "-", "0", "9">>
    [] ts = NowEarly -> <<"2", "6", "-", "0", "1", "-", "0", "2">>
    [] ts = NowLate -> <<"2", "6", "-", "0", "1", "-", "0", "3">>

ConvSettledAt == PyGet(PyGet(convIn.txn, "attributes", EmptyDict), "settledAt", Absent)
ConvCreatedAt == PyGet(PyGet(convIn.txn, "attributes", EmptyDict), "createdAt", Absent)

\* C17: the output date is the day of the settled timestamp when there is one,
\* else of the created timestamp when there is one, else of the current
\* processing time; the parent and the round-up record carry the same date
C17_DateSource ==
  (convOut # NoConv /\ ~ convOut.raised) =>
    \A k \in DOMAIN convOut.recs :
      convOut.recs[k].date =
        JChars(DayOf(IF ConvSettledAt \notin {Absent, JNull} THEN ConvSettledAt
                     ELSE IF ConvCreatedAt \notin {Absent, JNull} THEN ConvCreatedAt
                     ELSE convIn.now))

\* C17 witness: a pair converted from a transaction that has not settled,
\* dated by its created timestamp
W17_PairDatedByCreated ==
  /\ Len(convOut.recs) = 2 /\ ConvSettledAt = JNull
  /\ ConvRoundUpRecord.date = JChars(<<"2", "5", "-", "1", "2", "-", "1", "0">>)

\* the record being processed has been handled to its end without a failure
RecordSynced ==
  /\ pc \in {"record", "returned"} /\ log # <<>>
  /\ log[Len(log)].op = "submit" /\ log[Len(log)].ok

\* C18: every submission is a request of its own that holds exactly one
\* transaction, the converted record it is for, with debit_as_negative,
\* apply_rules and check_for_recurring all true; a message is fetched from the
\* source at most once, and once it is processed to its end there was exactly
\* one fetch and one submission per converted record, in order
C18_OneRecordPerRequest ==
  /\ \A k \in Submits :
       /\ log[k].payload.transactions = <<out[log[k].idx]>>
       /\ log[k].payload.debit_as_negative
       /\ log[k].payload.apply_rules
       /\ log[k].payload.check_for_recurring
  /\ Cardinality(Fetches) <= 1
  /\ Cardinality(Submits) <= Len(out)
  /\ RecordSynced =>
       /\ Cardinality(Fetches) = 1
       /\ Cardinality(Submits) = Len(out)
       /\ \A n \in 1..Len(out) : \E k \in Submits : log[k].idx = n

\* C18 witness: a message whose conversion gave two records was processed to
\* its end
W18_TwoSubmissions == RecordSynced /\ Len(out) = 2

\* C19: in a sync run, an entity whose record the mapping store holds when
\* the run comes to it is counted as synced and skipped: the run issues no
\* create call and no put for it
C19_MappedSkipped ==
  \A r \in Runs : \A i \in DOMAIN runs[r].items :
    runs[r].items[i].had =>
      /\ runs[r].items[i].found
      /\ ~ runs[r].items[i].put
      /\ createCalls[r][i] = 0

\* run r + 1 started after run r (and every earlier run) had returned, and no
\* later run started before run r + 1 returned
InSequence(r) ==
  /\ r + 1 \in Runs
  /\ runs[r].pc = "done" /\ runs[r + 1].pc = "done"
  /\ \A q \in 1..r : q \in runs[r + 1].after
  /\ \A q \in Runs : q > r + 1 => (runs[q].pc = "idle" \/ (r + 1) \in runs[q].after)

\* C20: of two runs of an orchestrator in sequence, the first of which synced
\* every entity, the second leaves the mapping store with the records it had
\* after the first and issues no create call
C20_SecondRunIdempotent ==
  \A r \in Runs :
    (InSequence(r) /\ runs[r].synced = Len(sources)) =>
      /\ runs[r + 1].tableAtEnd = runs[r].tableAtEnd
      /\ \A i \in DOMAIN sources : createCalls[r + 1][i] = 0

\* run r resolved entity i: its lookup returned the record, or it obtained a
\* target id and stored it
Resolved(r, i) ==
  /\ i \in DOMAIN runs[r].items
  /\ runs[r].items[i].found \/ runs[r].items[i].stored

\* C21: an entity resolved twice, by two runs in sequence, gets the same
\* target id both times, with at most one create call between the two
C21_ResolveTwice ==
  \A r \in Runs : \A i \in DOMAIN sources :
    (InSequence(r) /\ Resolved(r, i) /\ Resolved(r + 1, i)) =>
      /\ runs[r + 1].items[i].target = runs[r].items[i].target
      /\ createCalls[r][i] + createCalls[r + 1][i] <= 1

\* every record of the store stays, with its target id, over one step
KeepsRecords(table, tableNext) ==
  \A id \in DOMAIN table :
    /\ id \in DOMAIN tableNext
    /\ tableNext[id].lunchmoney_id = table[id].lunchmoney_id

\* C22: a mapping record, once in a mapping store, is never deleted and its
\* target id never changes, in any step of any run
C22_MappingImmutable ==
  [][/\ KeepsRecords(accountTable, accountTable')
     /\ KeepsRecords(categoryTable, categoryTable')]_vars

\* every run has returned
AllFinished == \A r \in Runs : runs[r].pc \in {"done", "failed"}

\* the runs that stored a record for entity i
Storers(i) ==
  {r \in Runs : i \in DOMAIN runs[r].items /\ runs[r].items[i].stored}

\* C23: runs resolving the same entity at once issue at most one create call
\* each for it; once all have returned and some have stored it, the store holds
\* the record of one of them, and each successful put leaves the store with the
\* id of the run that put (the last write wins)
C23_ConcurrentResolve ==
  /\ [](\A i \in DOMAIN sources :
          /\ \A r \in Runs : createCalls[r][i] <= 1
          /\ (AllFinished /\ Storers(i) # {}) =>
               /\ sources[i].id \in DOMAIN Table
               /\ \E r \in Storers(i) :
                    Table[sources[i].id].lunchmoney_id
                      = JChars(NatStr(runs[r].items[i].target)))
  /\ [][\A r \in Runs :
          (runs[r].pc = "save" /\ runs'[r].items[runs[r].idx].stored) =>
             /\ Entity(r).id \in DOMAIN Table'
             /\ Table'[Entity(r).id].lunchmoney_id
                  = JChars(NatStr(runs[r].lunchmoney_id))]_vars

\* two runs found the same entity unmapped, each made it in the target and
\* stored its own id, and all runs have returned
W23_BothCreatedAndStored ==
  /\ AllFinished
  /\ \E i \in DOMAIN sources :
       /\ {1, 2} \subseteq Storers(i)
       /\ ~ runs[1].items[i].had /\ ~ runs[2].items[i].had
       /\ createCalls[1][i] = 1 /\ createCalls[2][i] = 1
       /\ runs[1].items[i].target # runs[2].items[i].target

\* the snapshot of run r holds an entity with the name of r's current entity
HasNamed(r) ==
  \E j \in DOMAIN runs[r].snapshot : runs[r].snapshot[j].name = Entity(r).name

\* tid is the id of the first entity of r's snapshot, in the snapshot's order,
\* with the name of r's current entity
FirstNamed(r, tid) ==
  \E j \in DOMAIN runs[r].snapshot :
    /\ runs[r].snapshot[j].name = Entity(r).name
    /\ \A k \in 1..(j - 1) : runs[r].snapshot[k].name # Entity(r).name
    /\ runs[r].snapshot[j].id = tid

\* C24: resolving an entity without a mapping whose name the snapshot holds
\* returns the id of the first entity of that name in the snapshot, with no
\* create call, and the put that follows stores that id under the source id
C24_NameMatchFirst ==
  [][\A r \in Runs :
       /\ (runs[r].pc = "resolve" /\ runs'[r] # runs[r] /\ HasNamed(r)) =>
            /\ runs'[r].pc = "save"
            /\ FirstNamed(r, runs'[r].lunchmoney_id)
            /\ createCalls'[r][runs[r].idx] = 0
            /\ lm' = lm
       /\ (runs[r].pc = "save" /\ runs'[r].items[runs[r].idx].stored
             /\ HasNamed(r)) =>
            /\ Entity(r).id \in DOMAIN Table'
            /\ FirstNamed(r, runs[r].lunchmoney_id)
            /\ Table'[Entity(r).id].lunchmoney_id
                 = JChars(NatStr(runs[r].lunchmoney_id))]_vars

\* an entity the target held twice under its name was resolved without a
\* create call and is stored with the id of the first of the two
W24_FirstOfTwoStored ==
  \E r \in Runs :
    /\ 2 \in DOMAIN runs[r].items
    /\ ~ runs[r].items[2].had /\ runs[r].items[2].stored
    /\ runs[r].items[2].target = 55
    /\ createCalls[r][2] = 0
    /\ Len(lm) = 2 /\ lm[1].id = 55 /\ lm[2].id = 56 /\ lm[2].name = sources[2].name
    /\ Table[sources[2].id].lunchmoney_id = JChars(<<"5", "5">>)

\* the target ids there are: of the entities the target holds (there from the
\* start or made by a successful create call)
TargetIds == {JChars(NatStr(lm[j].id)) : j \in DOMAIN lm}

\* the record the store may hold from before the first run
FromStart(id, record) ==
  /\ id = sources[1].id
  /\ record = [lunchmoney_id |-> JChars(<<"1", "0", "1">>), name |-> sources[1].name]

\* C25: a create call that makes no entity ends the work on that entity with
\* no put for it, and the store only ever holds target ids of entities of the
\* target (matched by name or made by a create call)
C25_FailedCreateStoresNothing ==
  /\ [](\A id \in DOMAIN Table :
          FromStart(id, Table[id]) \/ Table[id].lunchmoney_id \in TargetIds)
  /\ [][\A r \in Runs :
          (runs[r].pc = "resolve" /\ lm' = lm
             /\ createCalls'[r][runs[r].idx] = createCalls[r][runs[r].idx] + 1) =>
            /\ runs'[r].pc # "save"
            /\ ~ runs'[r].items[runs[r].idx].put
            /\ runs'[r].items[runs[r].idx].target = 0
            /\ accountTable' = accountTable /\ categoryTable' = categoryTable]_vars

\* a run has returned after its create call for an unmapped entity made
\* nothing: the run holds no id for the entity, made no put for it, and the
\* store holds no record of it
W25_CreateFailed ==
  \E r \in Runs : \E i \in DOMAIN sources :
    /\ runs[r].pc = "done"
    /\ ~ runs[r].items[i].had
    /\ createCalls[r][i] = 1
    /\ runs[r].items[i].target = 0 /\ ~ runs[r].items[i].put
    /\ sources[i].id \notin DOMAIN Table

\* the entities run r counted: those its lookup found mapped and those it
\* mapped and stored
Counted(r) ==
  {i \in DOMAIN runs[r].items : runs[r].items[i].found \/ runs[r].items[i].stored}

\* C26: a run that reached its loop goes through every entity whatever fails
\* for one of them, and returns 200 with synced the number of entities it found
\* mapped or mapped and stored, which is at most the number of entities
C26_FailureIsolated ==
  \A r \in Runs :
    /\ runs[r].pc = "failed" => runs[r].items = <<>>
    /\ runs[r].pc \in {"item", "resolve", "save"} => runs[r].status = 0
    /\ runs[r].pc = "done" =>
         /\ runs[r].status = 200
         /\ Len(runs[r].items) = Len(sources)
         /\ runs[r].synced = Cardinality(Counted(r))
         /\ runs[r].synced <= Len(sources)

\* a run has returned 200 with one entity synced of two: its create call for
\* the first entity made nothing, and it went on to map and store the second
W26_FailedThenStored ==
  \E r \in Runs :
    /\ runs[r].pc = "done" /\ runs[r].status = 200
    /\ createCalls[r][1] = 1 /\ runs[r].items[1].target = 0
    /\ ~ runs[r].items[1].stored /\ ~ runs[r].items[1].found
    /\ runs[r].items[2].stored
    /\ runs[r].synced = 1

\* the bytes of the request body as the sender signed them
RawBody(event) ==
  IF event.isBase64Encoded THEN b64decode(event.body).bytes ELSE event.body

\* the request carries a signature header that is the digest of its raw body
\* (which an encoded body must decode to) under the shared secret
SignatureMatches(event) ==
  /\ SignatureHeader \in DOMAIN event.headers
  /\ event.isBase64Encoded => ~ b64decode(event.body).raised
  /\ event.headers[SignatureHeader] = hexdigest(WebhookSecret, RawBody(event))

\* an invocation of the webhook handler has just ended
Invoked == hookCount' = hookCount + 1

\* C27: the ingestor sends a message only for a request whose signature
\* matches; a request without a signature header or with another signature is
\* answered 403 and nothing is sent
C27_SignatureRequired ==
  [][Invoked =>
       /\ workQueue' # workQueue => SignatureMatches(hookEvent'.v)
       /\ (hookEnv'.secret_retrieved /\ ~ SignatureMatches(hookEvent'.v)) =>
            /\ hookStatus' = 403
            /\ workQueue' = workQueue]_vars

\* the body of the request is a JSON document
IsJsonDocument(event) == ~ json_loads(RawBody(event)).raised

\* C28: a request whose signature matches and whose body is a JSON document,
\* in plain text or base64-encoded, is answered 200 and exactly one message is
\* sent for it
C28_ValidAccepted ==
  [][(Invoked /\ hookEnv'.secret_retrieved /\ hookEnv'.accepted
        /\ SignatureMatches(hookEvent'.v) /\ IsJsonDocument(hookEvent'.v)) =>
       /\ hookStatus' = 200
       /\ Len(workQueue') = Len(workQueue) + 1]_vars

\* C29: every message on the work queue carries the webhook JSON as its body
\* and the single attribute webhook_type, whose value is the event type the
\* processor reads from that body
C29_AttributeIsEventType ==
  /\ \A k \in DOMAIN workQueue :
       /\ DOMAIN workQueue[k].MessageAttributes = {"webhook_type"}
       /\ ~ json_loads(workQueue[k].MessageBody).raised
       /\ workQueue[k].MessageAttributes.webhook_type.StringValue
            = EventType(json_loads(workQueue[k].MessageBody).value)
  /\ (hookStatus = 200 /\ workQueue # <<>>) =>
       json_loads(workQueue[Len(workQueue)].MessageBody).value
         = json_loads(RawBody(hookEvent.v)).value

\* the k-th call of the redrive is the given call for message id
IsCall(k, op, id) == rdLog[k].op = op /\ rdLog[k].id = id

\* C30: every delete of a message from the DLQ comes after a successful send
\* of that message to the main queue, with no failed send of it in between,
\* and a message whose send failed and has not succeeded since is still in the
\* DLQ
C30_DeleteAfterSend ==
  \A k \in DOMAIN rdLog : \A id \in DlqIds :
    /\ IsCall(k, "delete", id) =>
         \E j \in 1..(k - 1) :
           /\ IsCall(j, "send", id) /\ rdLog[j].ok
           /\ \A l \in (j + 1)..(k - 1) : ~ IsCall(l, "send", id)
    /\ (/\ IsCall(k, "send", id) /\ ~ rdLog[k].ok
        /\ \A l \in (k + 1)..Len(rdLog) : ~ IsCall(l, "send", id)) =>
         /\ \A l \in (k + 1)..Len(rdLog) : ~ IsCall(l, "delete", id)
         /\ id \in dlq

\* an invocation has returned after sending and deleting the first message and
\* failing to send the second, which the DLQ still holds
W30_OneMovedOneFailed ==
  /\ rd.pc = "done" /\ rd.status = 200
  /\ rdLog = <<[op |-> "send", id |-> 1, ok |-> TRUE],
               [op |-> "delete", id |-> 1, ok |-> TRUE],
               [op |-> "send", id |-> 2, ok |-> FALSE]>>
  /\ dlq = {2}
  /\ Len(mainQueue) = 1

\* the calls of one kind the invocation has made, and those that succeeded
Calls(op) == {k \in DOMAIN rdLog : rdLog[k].op = op}
OkCalls(op) == {k \in Calls(op) : rdLog[k].ok}

\* the messages the DLQ held when the invocation started: those it holds and
\* those deleted from it since
DlqAtStart == dlq \cup {rdLog[k].id : k \in OkCalls("delete")}

\* the invocation returned 200 with no failed send or delete, and its loop
\* ended at the cap or after every message of the DLQ had been handed out
MovedAllItCould ==
  /\ rd.pc = "done" /\ rd.status = 200
  /\ \A k \in DOMAIN rdLog : rdLog[k].ok
  /\ rd.redriven_count >= rd.max_messages \/ dlq \subseteq inFlight

\* the cap as stated: the event's maxMessages when given, the MAX_MESSAGES
\* environment value otherwise
StatedCap ==
  LET given == IF "maxMessages" \in DOMAIN rd.event THEN rd.event["maxMessages"]
               ELSE rd.environ["MAX_MESSAGES"]
  IN  IntOf(given).val

\* C31: when no send or delete fails, an invocation with cap m, the event's
\* maxMessages when given and the MAX_MESSAGES environment value otherwise,
\* and k messages available moves exactly min(m, k) messages: redrivenCount,
\* the number of sends and the number of deletes are all min(m, k), and the
\* messages received beyond the cap are neither sent nor deleted
C31_MovesMinOfCapAndAvailable ==
  (/\ MovedAllItCould
   /\ "maxMessages" \in DOMAIN rd.event \/ "MAX_MESSAGES" \in DOMAIN rd.environ) =>
    LET moved == Min2(StatedCap, Cardinality(DlqAtStart))
    IN  /\ rd.redriven_count = moved
        /\ Cardinality(Calls("send")) = moved
        /\ Cardinality(Calls("delete")) = moved
        /\ Len(mainQueue) = moved
        /\ Cardinality(dlq) = Cardinality(DlqAtStart) - moved
        /\ \A id \in dlq : \A k \in DOMAIN rdLog : rdLog[k].id # id

\* an invocation with the environment's cap of 1 was handed two messages,
\* moved the first and left the second in the DLQ, neither sent nor deleted
W31_CapFromEnvironLeavesTheRest ==
  /\ MovedAllItCould
  /\ "maxMessages" \notin DOMAIN rd.event /\ "MAX_MESSAGES" \in DOMAIN rd.environ
  /\ rd.redriven_count = 1
  /\ inFlight = {2} /\ dlq = {2}
  /\ Len(rdLog) = 2

\* C32: under every pattern of send and delete failures an invocation
\* re-enqueues at most maxMessages messages on the main queue (successful
\* sends <= maxMessages) and redrivenCount <= maxMessages
C32_CapRespected ==
  /\ Cardinality(OkCalls("send")) <= rd.max_messages
  /\ Len(mainQueue) <= rd.max_messages
  /\ rd.redriven_count <= rd.max_messages

\* this step called send_message for the message at hand and the call raised
SendFailed ==
  /\ rd.pc = "send"
  /\ rdLog' = Append(rdLog, [op |-> "send", id |-> rd.messages[rd.i], ok |-> FALSE])

\* C33: a failed send is per-message: the message stays un-deleted in the
\* DLQ, failedCount grows by one, the rest of the batch is still sent and
\* deleted, no send or delete step ends the invocation with a 500, and an
\* invocation that returns 200 reports as redrivenCount the number of
\* messages sent and deleted
C33_FailedSendIsPerMessage ==
  /\ [](rd.pc = "done" /\ rd.status = 200 =>
          /\ rd.redriven_count = Cardinality(OkCalls("delete"))
          /\ \A k \in OkCalls("delete") :
               \E j \in OkCalls("send") : j < k /\ rdLog[j].id = rdLog[k].id)
  /\ [][/\ SendFailed =>
             /\ rd.messages[rd.i] \in dlq' /\ dlq' = dlq
             /\ mainQueue' = mainQueue
             /\ rd'.failed_count = rd.failed_count + 1
             /\ rd'.redriven_count = rd.redriven_count
             /\ IF rd.i < Len(rd.messages)
                THEN /\ rd'.pc = "send" /\ rd'.messages = rd.messages
                     /\ rd'.i = rd.i + 1
                     /\ rd'.redriven_count < rd'.max_messages
                ELSE rd'.pc = "receive"
        /\ rd.pc = "send" /\ rd.redriven_count < rd.max_messages =>
             /\ Len(rdLog') = Len(rdLog) + 1
             /\ rdLog'[Len(rdLog')].op = "send"
             /\ rdLog'[Len(rdLog')].id = rd.messages[rd.i]
        /\ rd.pc = "send" /\ rd'.pc = "delete" =>
             /\ rdLog'[Len(rdLog')].ok
             /\ rd'.messages = rd.messages /\ rd'.i = rd.i
        /\ rd.pc = "delete" =>
             /\ Len(rdLog') = Len(rdLog) + 1
             /\ rdLog'[Len(rdLog')].op = "delete"
             /\ rdLog'[Len(rdLog')].id = rd.messages[rd.i]
        /\ rd.pc \in {"send", "delete"} => rd'.pc \in {"send", "delete", "receive"}
       ]_vars

\* the first message's send failed, the second message of the same batch was
\* sent and deleted, and the invocation returned 200 with redrivenCount 1 and
\* failedCount 1, the first message still in the DLQ
W33_FailedThenMovedNext ==
  /\ rd.pc = "done" /\ rd.status = 200
  /\ rd.redriven_count = 1 /\ rd.failed_count = 1
  /\ rdLog = <<[op |-> "send", id |-> 1, ok |-> FALSE],
               [op |-> "send", id |-> 2, ok |-> TRUE],
               [op |-> "delete", id |-> 2, ok |-> TRUE]>>
  /\ dlq = {1} /\ inFlight = {1}

\* the successful send_message calls of the invocation, in order
OkSends == SelectSeq(rdLog, LAMBDA call : call.op = "send" /\ call.ok)

\* C34: every message put on the main queue has the body of the DLQ message
\* it was received as and carries that message's attributes unchanged when it
\* has any (and none when it has none)
C34_BodyAndAttributesKept ==
  /\ Len(mainQueue) = Len(OkSends)
  /\ \A k \in DOMAIN mainQueue :
       LET message == DlqMessage(OkSends[k].id)
       IN  /\ mainQueue[k].MessageBody = message.Body
           /\ IF "MessageAttributes" \in DOMAIN message
              THEN /\ "MessageAttributes" \in DOMAIN mainQueue[k]
                   /\ mainQueue[k].MessageAttributes = message.MessageAttributes
              ELSE "MessageAttributes" \notin DOMAIN mainQueue[k]

\* both messages were moved: the one with the webhook_type attribute is on
\* the main queue with it, the one without attributes without any
W34_MovedWithAndWithoutAttributes ==
  /\ rd.pc = "done" /\ rd.redriven_count = 2 /\ dlq = {}
  /\ Len(mainQueue) = 2
  /\ mainQueue[1].MessageAttributes.webhook_type.StringValue = JStr("TRANSACTION_CREATED")
  /\ DOMAIN mainQueue[2] = {"MessageBody"}

\* C35: the main work queue, the queue with the dead-letter queue attached,
\* has a visibility timeout of 720 seconds (12 minutes)
C35_VisibilityTimeout720 ==
  \A q \in DOMAIN deployed :
    "dead_letter_queue" \in DOMAIN deployed[q] =>
      /\ "visibility_timeout" \in DOMAIN deployed[q]
      /\ deployed[q].visibility_timeout = 720

\* message id has been sent successfully and is on the main queue with its body
OnMainQueue(id) ==
  \E k \in DOMAIN OkSends :
    /\ OkSends[k].id = id
    /\ k <= Len(mainQueue)
    /\ mainQueue[k].MessageBody = DlqMessage(id).Body

\* C36: a redrive never loses a message: at every point of an invocation and
\* after it, under every pattern of send, delete and receive failures, a
\* message that leaves the DLQ has been successfully sent to the main queue,
\* and what is on the main queue stays there
C36_NoMessageLost ==
  /\ [](\A id \in DlqAtStart : id \in dlq \/ OnMainQueue(id))
  /\ [][/\ \A id \in dlq : id \notin dlq' => OnMainQueue(id) /\ OnMainQueue(id)'
        /\ dlq' \subseteq dlq
        /\ Len(mainQueue') >= Len(mainQueue)
        /\ SubSeq(mainQueue', 1, Len(mainQueue)) = mainQueue
       ]_vars

\* an invocation ended with a 500 on a failed receive after one message was
\* moved, one send having failed before: the moved message is on the main
\* queue, the other one still in the DLQ
W36_ReceiveFailedAfterMove ==
  /\ rd.pc = "done" /\ rd.status = 500
  /\ rd.redriven_count = 1 /\ rd.failed_count = 1
  /\ dlq = {1} /\ OnMainQueue(2) /\ ~ OnMainQueue(1)

\* C37: every invocation terminates: it returns, or raises on its cap, and
\* its receive loop ends at the cap or on an empty receive, also when every
\* send or every delete fails and redrivenCount never grows (the DLQ being
\* finite and no message being handed out twice to one invocation)
C37_RedriveTerminates == <>(rd.pc = "done")

\* an invocation with a cap above the DLQ's size ended after every send had
\* failed: nothing redriven, both messages handed out once and still in the DLQ
W37_EndedWithEverySendFailed ==
  /\ rd.pc = "done" /\ rd.status = 200
  /\ rd.max_messages = 10 /\ rd.redriven_count = 0 /\ rd.failed_count = 2
  /\ dlq = {1, 2} /\ inFlight = {1, 2}
  /\ \A k \in DOMAIN rdLog : rdLog[k].op = "send" /\ ~ rdLog[k].ok

\* C38: no run issues a create call for a source entity whose name is the
\* name of an entity the target held when the run started, the run whose
\* listing of the target's entities failed included
C38_NoCreateForExistingName ==
  [][\A r \in Runs :
       createCalls'[r] # createCalls[r] =>
         \A k \in 1..runs[r].held : lm[k].name # Entity(r).name]_vars

\* the step converted a transaction that references the source entity id
\* under the relationship name
ConvertedReferencing(name, id) ==
  /\ convIn' # JNull /\ UNCHANGED storeVars
  /\ RelatedId(PyGet(convIn'.txn, "relationships", EmptyDict), name) = JStr(id)

\* the conversion succeeded and its record carries n under field
Attached(field, n) ==
  /\ ~ convOut'.raised /\ Len(convOut'.recs) >= 1
  /\ field \in DOMAIN convOut'.recs[1]
  /\ convOut'.recs[1][field] = n

\* C39: for every mapping record a sync run writes for a source account (or
\* category) with target id n, a later conversion of a transaction that
\* references the account (or category) succeeds and attaches asset_id (or
\* category_id) equal to n as an integer
C39_MappingIdRoundTrip ==
  [][\A e \in DOMAIN sources : \A n \in TargetIdChoices :
       (/\ sources[e].id \in DOMAIN Table
        /\ Table[sources[e].id] = MappingItem(sources[e], n)) =>
         /\ (kind = "account" /\ ConvertedReferencing("account", sources[e].id)) =>
              Attached("asset_id", n)
         /\ (kind = "category" /\ ConvertedReferencing("category", sources[e].id)) =>
              Attached("category_id", n)]_vars

\* C40: the ingestor answers 200 only if the message was put on the work
\* queue: an invocation answered 200 has appended exactly one message, the
\* webhook's JSON, to the queue; when the send raises, or a step between the
\* signature check and the send, the answer is 500 and nothing is acknowledged
C40_AcknowledgedOnlyIfQueued ==
  [][Invoked =>
       /\ hookStatus' = 200 =>
            /\ hookEnv'.accepted
            /\ Len(workQueue') = Len(workQueue) + 1
            /\ SubSeq(workQueue', 1, Len(workQueue)) = workQueue
            /\ workQueue'[Len(workQueue')].MessageBody =
                 json_dumps(json_loads(hookEvent'.v.body).value)
       /\ hookStatus' # 200 => workQueue' = workQueue
       /\ (/\ hookEnv'.secret_retrieved /\ SignatureMatches(hookEvent'.v)
           /\ workQueue' = workQueue) => hookStatus' = 500
       /\ (~ hookEnv'.accepted /\ hookEnv'.secret_retrieved
             /\ SignatureMatches(hookEvent'.v)) => hookStatus' = 500]_vars

\* a request with a matching signature and a JSON body was answered 500
\* because the queue refused the send, and nothing was enqueued
W40_SendRefusedAnswered500 ==
  /\ hookCount = 1 /\ hookStatus = 500
  /\ hookEnv.secret_retrieved /\ ~ hookEnv.accepted
  /\ SignatureMatches(hookEvent.v) /\ IsJsonDocument(hookEvent.v)
  /\ ~ webhook_event_type(json_loads(hookEvent.v.body).value).raised
  /\ workQueue = <<>>

====
